---- MODULE Spec2Model ----
(***************************************************************************)
(* Verification model of the webShooter ECS runtime: the World registry    *)
(* (entities, component / tag reverse indices), the Entity operations and  *)
(* the CollisionSystem pair-state machine.                                 *)
(*                                                                         *)
(* JavaScript Map / Set objects iterate in insertion order, so they are    *)
(* modelled as duplicate-free sequences wherever the order can be seen.    *)
(* Numbers (positions, velocities, radii) are fixed-point integers that    *)
(* count 1/Unit; all inputs are dyadic, so the arithmetic of the code is   *)
(* exact on them.                                                          *)
(***************************************************************************)
EXTENDS Integers, Sequences, FiniteSets, TLC

\* ------------------------------------------------------------------ bounds
MaxEntities == 3
MaxUpdates == 4

Ids == 0..(MaxEntities - 1)
Unit == 2^(2 * MaxUpdates)

Types == {"Transform", "Collider", "Physics", "Lifetime"}
Tags == {"enemy", "projectile"}

\* ---------------------------------------------------------------- state
VARIABLES
  entityIdCounter,    \* World.entityIdCounter
  entities,           \* World.entities (Map id -> Entity), keys in insertion order
  destroyed,          \* Entity.destroyed, per id
  components,         \* Entity.components, per id: type -> component record
  tags,               \* Entity.tags, per id
  componentEntities,  \* World.componentEntities: type -> insertion-ordered set of ids
  taggedEntities,     \* World.taggedEntities: tag -> insertion-ordered set of ids
  collidingPairs,     \* CollisionSystem.collidingPairs (keys whose value is true)
  events,             \* hook calls made by the last CollisionSystem.update, in order
  threw,              \* the last CollisionSystem.update raised a TypeError
  updateCount,        \* number of CollisionSystem.update calls so far
  trace,              \* per update, what happened to the pair (0,1)
  lastCheck,          \* result of the last direct checkCollision call, if any
  everDestroyed,      \* ids of the entities that have been destroyed at some time
  collisionCallbacks, \* CollisionSystem.collisionCallbacks: the registered tag pairs
  callbackCalls,      \* calls of registered callbacks made by the last update, in order
  systems,            \* World.systems: the systems in the order update runs them
  systemWorld,        \* per system: its world reference is set (System.world)
  addOrder,           \* the registered systems in the order of their addSystem calls
  ran,                \* the last World.update: per system run, what it could observe
  input,              \* InputSystem: keys, keysDown, keysUp, wheelDelta
  wheelLog,           \* deltas of the wheel events since the last InputSystem.update
  gridCells,          \* SpatialHashGrid.cells: cell key -> array of entities
  gridObjects,        \* the entities of the GameEngine: position, collider, _spatialCells
  hookBalance,        \* per entity and type: calls of onAdd minus calls of onRemove
  destroyLog,         \* per entity, per destroy call on it: the onRemove calls it made
  calls,              \* the hook calls of the last world operation, in order (if traced)
  tracing,            \* the hook calls of the world operations are recorded
  mover,              \* the Transform and the Physics of one moving entity
  moved,              \* the inputs of the MovementSystem.update calls so far
  game,               \* Game: running, animationFrameId; the frames that are requested
  stopReturned,       \* Game.stop() has returned and Game.start() was not called since
  objects,            \* the two objects ({x, y, size}) handed to the utilities
  collided,           \* the result of the last checkCollision(obj1, obj2) of the utilities
  priority,           \* System.priority, per system
  enabled,            \* System.enabled, per system
  owner,              \* component.entity, per component object
  ball                \* BallGame: gameState, round, roundComplete, the spawn timers

worldVars == <<entityIdCounter, entities, destroyed, components, tags,
               componentEntities, taggedEntities, hookBalance, calls, tracing>>
collisionVars == <<collidingPairs, events, threw, updateCount, trace, lastCheck>>
callbackVars == <<collisionCallbacks, callbackCalls>>
engineVars == <<systems, systemWorld, addOrder, ran, input, wheelLog>>
gridVars == <<gridCells, gridObjects>>
moveVars == <<mover, moved>>
loopVars == <<game, stopReturned>>
utilVars == <<objects, collided>>
schedVars == <<priority, enabled>>
gameVars == <<moveVars, loopVars, utilVars, schedVars, owner, ball>>
auxVars == <<callbackVars, engineVars, gridVars, destroyLog, gameVars>>
vars == <<entityIdCounter, entities, destroyed, components, tags,
          componentEntities, taggedEntities, collidingPairs, events, threw,
          updateCount, trace, lastCheck, everDestroyed, hookBalance, calls, tracing, auxVars>>

\* ------------------------------------------- insertion-ordered collections
EmptyMap == [k \in {} |-> k]
Elems(s) == {s[i] : i \in 1..Len(s)}
SetAdd(s, x) == IF x \in Elems(s) THEN s ELSE Append(s, x)
SetDelete(s, x) == SelectSeq(s, LAMBDA y : y # x)
MapDelete(m, k) == [j \in (DOMAIN m) \ {k} |-> m[j]]
MapSet(m, k, v) == [j \in (DOMAIN m) \cup {k} |-> IF j = k THEN v ELSE m[j]]

\* no component attached yet
NoHooks == [e \in Ids |-> [t \in Types |-> 0]]

\* The world as one value, so that operations can be composed.
W == [entityIdCounter |-> entityIdCounter, entities |-> entities,
      destroyed |-> destroyed, components |-> components, tags |-> tags,
      componentEntities |-> componentEntities,
      taggedEntities |-> taggedEntities, hookBalance |-> hookBalance,
      calls |-> <<>>]

SetWorld(w) ==
  /\ entityIdCounter' = w.entityIdCounter
  /\ entities' = w.entities
  /\ destroyed' = w.destroyed
  /\ components' = w.components
  /\ tags' = w.tags
  /\ componentEntities' = w.componentEntities
  /\ taggedEntities' = w.taggedEntities
  /\ hookBalance' = w.hookBalance
  /\ calls' = IF tracing THEN w.calls ELSE <<>>
  /\ tracing' = tracing
  /\ everDestroyed' = everDestroyed \cup {e \in DOMAIN w.destroyed : w.destroyed[e]}

\* One entry of the call log: a hook call or a step the hooks can be ordered
\* against ("set": components.set, "link" / "unlink": component.entity is set
\* to the entity / to null, "destroy": Entity.destroy passed its guard).
Call(name, e, type, c) == [call |-> name, entity |-> e, type |-> type, component |-> c]
Log(w, entry) == [w EXCEPT !.calls = Append(@, entry)]
\* console.warn('Cannot ... destroyed entity') of the guard of an Entity method
Warn(w, e, method) == Log(w, [call |-> "warn", entity |-> e, method |-> method])

\* ------------------------------------------------------------- World.js
World_registerComponent(w, type, e) ==
  LET ce == w.componentEntities
      cur == IF type \in DOMAIN ce THEN ce[type] ELSE <<>>
  IN  [w EXCEPT !.componentEntities = MapSet(ce, type, SetAdd(cur, e))]

\* unregisterComponent that leaves the entry of the type in place when its
\* set becomes empty
World_unregisterComponent_keepsEmpty(w, type, e) ==
  LET ce == w.componentEntities
  IN  IF type \in DOMAIN ce
      THEN [w EXCEPT !.componentEntities = MapSet(ce, type, SetDelete(ce[type], e))]
      ELSE w

World_unregisterComponent(w, type, e) ==
  LET ce == w.componentEntities
  IN  IF type \in DOMAIN ce
      THEN LET rest == SetDelete(ce[type], e)
           IN  IF Len(rest) = 0
               THEN [w EXCEPT !.componentEntities = MapDelete(ce, type)]
               ELSE [w EXCEPT !.componentEntities = MapSet(ce, type, rest)]
      ELSE w

World_registerTag(w, tag, e) ==
  LET te == w.taggedEntities
      cur == IF tag \in DOMAIN te THEN te[tag] ELSE <<>>
  IN  [w EXCEPT !.taggedEntities = MapSet(te, tag, SetAdd(cur, e))]

World_unregisterTag(w, tag, e) ==
  LET te == w.taggedEntities
  IN  IF tag \in DOMAIN te
      THEN LET rest == SetDelete(te[tag], e)
           IN  IF Len(rest) = 0
               THEN [w EXCEPT !.taggedEntities = MapDelete(te, tag)]
               ELSE [w EXCEPT !.taggedEntities = MapSet(te, tag, rest)]
      ELSE w

\* createEntity that numbers the new entity by the size of the entity map
World_createEntity_bySize(w) ==
  LET id == Len(w.entities)
  IN  Log([w EXCEPT !.entityIdCounter = id + 1,
                    !.entities = SetAdd(w.entities, id)],
          [call |-> "createEntity", entity |-> id])

World_createEntity(w) ==
  LET id == w.entityIdCounter
  IN  Log([w EXCEPT !.entityIdCounter = id + 1,
                    !.entities = SetAdd(w.entities, id)],
          [call |-> "createEntity", entity |-> id])

\* ------------------------------------------------------------ Entity.js
Entity_hasComponent(w, e, type) == type \in DOMAIN w.components[e]
Entity_hasTag(w, e, tag) == tag \in w.tags[e]

\* removeComponent that forgets world.unregisterComponent
Entity_removeComponent_keepsIndex(w, e, type) ==
  IF w.destroyed[e] THEN w
  ELSE [w EXCEPT !.components[e] = MapDelete(@, type)]

Entity_removeComponent(w, e, type) ==
  IF w.destroyed[e] THEN Warn(w, e, "removeComponent")
  ELSE IF Entity_hasComponent(w, e, type)
       THEN LET c == w.components[e][type]
                w1 == Log(Log(w, Call("onRemove", e, type, c)),
                          Call("unlink", e, type, c))
            IN  World_unregisterComponent(
                  [w1 EXCEPT !.components[e] = MapDelete(@, type),
                             !.hookBalance[e][type] = @ - 1], type, e)
       ELSE w

\* addComponent that stores the new component over the one that is held
DetachHeld_skips(w, e, type) == w

\* if (this.components.has(type)) this.removeComponent(type)
DetachHeld(w, e, type) ==
  IF Entity_hasComponent(w, e, type) THEN Entity_removeComponent(w, e, type) ELSE w

\* addComponent without the destroyed check
Entity_addComponent_unguarded(w, e, type, c) ==
  LET w1 == DetachHeld(w, e, type)
      w2 == Log([w1 EXCEPT !.components[e] = MapSet(@, type, c)],
                Call("set", e, type, c))
      w3 == World_registerComponent(w2, type, e)
      w4 == Log(Log(w3, Call("link", e, type, c)), Call("onAdd", e, type, c))
  IN  [w4 EXCEPT !.hookBalance[e][type] = @ + 1]

Entity_addComponent(w, e, type, c) ==
  IF w.destroyed[e] THEN Warn(w, e, "addComponent")
  ELSE LET w1 == DetachHeld(w, e, type)
           w2 == Log([w1 EXCEPT !.components[e] = MapSet(@, type, c)],
                     Call("set", e, type, c))
           w3 == World_registerComponent(w2, type, e)
           w4 == Log(Log(w3, Call("link", e, type, c)), Call("onAdd", e, type, c))
       IN  [w4 EXCEPT !.hookBalance[e][type] = @ + 1]

\* addTag without the destroyed check
Entity_addTag_unguarded(w, e, tag) ==
  IF ~Entity_hasTag(w, e, tag)
  THEN World_registerTag([w EXCEPT !.tags[e] = @ \cup {tag}], tag, e)
  ELSE w

Entity_addTag(w, e, tag) ==
  IF w.destroyed[e] THEN Warn(w, e, "addTag")
  ELSE IF ~Entity_hasTag(w, e, tag)
       THEN World_registerTag([w EXCEPT !.tags[e] = @ \cup {tag}], tag, e)
       ELSE w

Entity_removeTag(w, e, tag) ==
  IF w.destroyed[e] THEN Warn(w, e, "removeTag")
  ELSE IF Entity_hasTag(w, e, tag)
       THEN World_unregisterTag([w EXCEPT !.tags[e] = @ \ {tag}], tag, e)
       ELSE w

\* the first loop of Entity.destroy without the call of component.onRemove
RECURSIVE UnregisterComponents_noHook(_, _, _)
UnregisterComponents_noHook(w, e, todo) ==
  IF todo = {} THEN w
  ELSE LET t == CHOOSE x \in todo : TRUE
       IN  UnregisterComponents_noHook(World_unregisterComponent(w, t, e), e, todo \ {t})

\* The two loops of Entity.destroy: call onRemove of / unregister every held
\* type, unregister every tag.
RECURSIVE UnregisterComponents(_, _, _)
UnregisterComponents(w, e, todo) ==
  IF todo = {} THEN w
  ELSE LET t == CHOOSE x \in todo : TRUE
           c == w.components[e][t]
           w1 == Log(Log([w EXCEPT !.hookBalance[e][t] = @ - 1],
                         Call("onRemove", e, t, c)), Call("unlink", e, t, c))
       IN  UnregisterComponents(World_unregisterComponent(w1, t, e), e, todo \ {t})

RECURSIVE UnregisterTags(_, _, _)
UnregisterTags(w, e, todo) ==
  IF todo = {} THEN w
  ELSE LET t == CHOOSE x \in todo : TRUE
       IN  UnregisterTags(World_unregisterTag(w, t, e), e, todo \ {t})

RECURSIVE Entity_destroy(_, _)
RECURSIVE World_destroyEntity(_, _)

Entity_destroy(w, e) ==
  IF w.destroyed[e] THEN w
  ELSE LET w0 == Log(w, [call |-> "destroy", entity |-> e])
           w1 == UnregisterComponents(w0, e, DOMAIN w.components[e])
           w2 == [w1 EXCEPT !.components[e] = EmptyMap]
           w3 == UnregisterTags(w2, e, w2.tags[e])
           w4 == [w3 EXCEPT !.tags[e] = {}, !.destroyed[e] = TRUE]
       IN  World_destroyEntity(w4, e)

World_destroyEntity(w, id) ==
  IF id \in Elems(w.entities)
  THEN LET w1 == Entity_destroy(w, id)
       IN  [w1 EXCEPT !.entities = SetDelete(@, id)]
  ELSE w

\* ------------------------------------------ component objects (Entity.js)
\* The component objects that a caller creates once and hands to addComponent:
\* plain objects (the Lifetime of EcsGame: no entity property, no onAdd or
\* onRemove) and an instance of a Component subclass (entity = null from the
\* constructor, onAdd and onRemove inherited).
PartNames == {"lifetimeA", "lifetimeB", "transformA"}
TypeOf(o) == IF o = "transformA" THEN "Transform" ELSE "Lifetime"
HasHooks(o) == o = "transformA"
\* the value that is stored in the component map of the entity
Part(o) == [name |-> o]

\* the values of component.entity
Undefined == [ref |-> "undefined"]
Null == [ref |-> "null"]
Ref(e) == [ref |-> "entity", id |-> e]
NewOwner(o) == IF HasHooks(o) THEN Null ELSE Undefined

\* removeComponent / destroy: component.onRemove(), if there is one, and
\* if (component.entity === this) component.entity = null
Unlink(own, o, e) ==
  LET own1 == IF HasHooks(o) THEN [own EXCEPT ![o] = Null] ELSE own
  IN  IF own1[o] = Ref(e) THEN [own1 EXCEPT ![o] = Null] ELSE own1

\* addComponent: if (component.entity === undefined) component.entity = this,
\* then component.onAdd(this), if there is one
Link(own, o, e) ==
  LET own1 == IF own[o] = Undefined THEN [own EXCEPT ![o] = Ref(e)] ELSE own
  IN  IF HasHooks(o) THEN [own1 EXCEPT ![o] = Ref(e)] ELSE own1

\* component.entity of every object after entity.removeComponent(type)
Owner_removeComponent(own, w, e, type) ==
  IF w.destroyed[e] \/ ~Entity_hasComponent(w, e, type) THEN own
  ELSE Unlink(own, w.components[e][type].name, e)

\* component.entity of every object after entity.addComponent(TypeOf(o), o)
Owner_addComponent(own, w, e, o) ==
  IF w.destroyed[e] THEN own
  ELSE Link(Owner_removeComponent(own, w, e, TypeOf(o)), o, e)

\* World.removeEntity: this.entities.delete(entity.id)
World_removeEntity(w, id) == [w EXCEPT !.entities = SetDelete(@, id)]

\* The loop of World.clear / Game.loadScene over the entity map.
RECURSIVE DestroyInOrder(_, _)
DestroyInOrder(w, todo) ==
  IF Len(todo) = 0 THEN w
  ELSE DestroyInOrder(Entity_destroy(w, Head(todo)), Tail(todo))

\* the first loop of World.clear: system.onRemove() for each of this.systems
RECURSIVE RemoveSystems(_, _)
RemoveSystems(w, sys) ==
  IF sys = <<>> THEN w
  ELSE RemoveSystems(Log(w, [call |-> "System.onRemove", system |-> Head(sys)]),
                     Tail(sys))

\* clear that destroys the entities before it detaches the systems
World_clear_entitiesFirst(w, sys) ==
  LET w0 == DestroyInOrder(w, w.entities)
      w1 == RemoveSystems(w0, sys)
  IN  [w1 EXCEPT !.entities = <<>>,
                 !.componentEntities = EmptyMap,
                 !.taggedEntities = EmptyMap]

World_clear(w, sys) ==
  LET w0 == RemoveSystems(w, sys)
      w1 == DestroyInOrder(w0, w0.entities)
  IN  [w1 EXCEPT !.entities = <<>>,
                 !.componentEntities = EmptyMap,
                 !.taggedEntities = EmptyMap]

World_getEntitiesWithTag(w, tag) ==
  IF tag \in DOMAIN w.taggedEntities THEN w.taggedEntities[tag] ELSE <<>>

World_getEntitiesByTag(w, tag) ==
  IF tag \in DOMAIN w.taggedEntities THEN Elems(w.taggedEntities[tag]) ELSE {}

\* the intersection loop that deletes nothing
Intersect_keepsAll(w, result, types) == result

RECURSIVE Intersect(_, _, _)
Intersect(w, result, types) ==
  IF Len(types) = 0 THEN result
  ELSE IF Head(types) \notin DOMAIN w.componentEntities THEN <<>>
  ELSE LET with == Elems(w.componentEntities[Head(types)])
           kept == SelectSeq(result, LAMBDA x : x \in with)
       IN  IF Len(kept) = 0 THEN <<>> ELSE Intersect(w, kept, Tail(types))

World_getEntitiesWithComponents(w, componentTypes) ==
  IF Len(componentTypes) = 0 THEN w.entities
  ELSE IF Head(componentTypes) \notin DOMAIN w.componentEntities THEN <<>>
  ELSE Intersect(w, w.componentEntities[Head(componentTypes)], Tail(componentTypes))

\* ------------------------------------------------------------ components
\* new Transform({x, y}) / new Collider({...}) / new Physics({...}); numbers in 1/Unit
Transform(x, y) == [x |-> x, y |-> y]
Collider(radius, layer, collidesWith, isTrigger, hook) ==
  [type |-> "circle", radius |-> radius, layer |-> layer,
   collidesWith |-> collidesWith, isTrigger |-> isTrigger,
   onCollisionStart |-> hook]
Physics(vx, vy, bounce) ==
  [velocityX |-> vx, velocityY |-> vy, bounceX |-> bounce, bounceY |-> bounce,
   mass |-> 1]

\* canCollideWith that lets every layer through
Collider_canCollideWith_anyLayer(self, other) == TRUE

Collider_canCollideWith(self, other) == other.layer \in self.collidesWith

Collider_setLayers(self, layer, collidesWith) ==
  [self EXCEPT !.layer = layer, !.collidesWith = collidesWith]

\* ---------------------------------------------------- System.getEntities
\* The CollisionSystem is registered in the world; requiredComponents = ['Collider'].
System_getEntities(w) == World_getEntitiesWithComponents(w, <<"Collider">>)

\* --------------------------------------------------- CollisionSystem.js
Abs(n) == IF n < 0 THEN -n ELSE n
Min(a, b) == IF a < b THEN a ELSE b
Max(a, b) == IF a > b THEN a ELSE b

\* ids are "entity_<n>"; for n < 10 the string order is the numeric order
CollisionSystem_getPairKey(a, b) == IF a < b THEN <<a, b>> ELSE <<b, a>>

\* the check that measures against the radius of the first circle alone
CollisionSystem_checkCollision_firstRadius(w, a, b) ==
  IF ~(/\ Entity_hasComponent(w, a, "Collider")
       /\ Entity_hasComponent(w, b, "Collider")
       /\ Entity_hasComponent(w, a, "Transform")
       /\ Entity_hasComponent(w, b, "Transform"))
  THEN FALSE
  ELSE LET cA == w.components[a]["Collider"]
           cB == w.components[b]["Collider"]
           tA == w.components[a]["Transform"]
           tB == w.components[b]["Transform"]
           dx == tA.x - tB.x
           dy == tA.y - tB.y
           sum == cA.radius + cA.radius
       IN  IF cA.type = "circle" /\ cB.type = "circle"
           THEN dx * dx + dy * dy < sum * sum
           ELSE FALSE

\* Math.sqrt(dx*dx + dy*dy) < rA + rB: both sides are >= 0 and the squares are
\* exact, so comparing the squares gives the same result.
CollisionSystem_checkCollision(w, a, b) ==
  IF ~(/\ Entity_hasComponent(w, a, "Collider")
       /\ Entity_hasComponent(w, b, "Collider")
       /\ Entity_hasComponent(w, a, "Transform")
       /\ Entity_hasComponent(w, b, "Transform"))
  THEN FALSE
  ELSE LET cA == w.components[a]["Collider"]
           cB == w.components[b]["Collider"]
           tA == w.components[a]["Transform"]
           tB == w.components[b]["Transform"]
           dx == tA.x - tB.x
           dy == tA.y - tB.y
           sum == cA.radius + cB.radius
       IN  IF cA.type = "circle" /\ cB.type = "circle"
           THEN dx * dx + dy * dy < sum * sum
           ELSE FALSE

\* Math.sqrt(dx*dx + dy*dy) for a vector along one axis (the only vectors
\* the bodies of this model are given)
AxisLength(dx, dy) ==
  CASE dy = 0 -> Abs(dx)
    [] dx = 0 -> Abs(dy)

CollisionSystem_resolveCollision(w, a, b) ==
  IF ~(/\ Entity_hasComponent(w, a, "Physics")
       /\ Entity_hasComponent(w, b, "Physics")
       /\ Entity_hasComponent(w, a, "Transform")
       /\ Entity_hasComponent(w, b, "Transform")
       /\ Entity_hasComponent(w, a, "Collider")
       /\ Entity_hasComponent(w, b, "Collider"))
  THEN w
  ELSE LET pA == w.components[a]["Physics"]
           pB == w.components[b]["Physics"]
           tA == w.components[a]["Transform"]
           tB == w.components[b]["Transform"]
           cA == w.components[a]["Collider"]
           cB == w.components[b]["Collider"]
           dx == tB.x - tA.x
           dy == tB.y - tA.y
       IN  IF dx = 0 /\ dy = 0 THEN w
           ELSE
           LET distance == AxisLength(dx, dy)
               nx == dx \div distance
               ny == dy \div distance
               relVelocityX == pB.velocityX - pA.velocityX
               relVelocityY == pB.velocityY - pA.velocityY
               velocityAlongNormal == relVelocityX * nx + relVelocityY * ny
           IN  IF velocityAlongNormal > 0 THEN w
               ELSE
               LET restitution == Min(Max(pA.bounceX, pA.bounceY),
                                      Max(pB.bounceX, pB.bounceY))
                   impulseScalar == -(1 + restitution) * velocityAlongNormal
                   totalMass == pA.mass + pB.mass
                   impulseA == (impulseScalar * pB.mass) \div totalMass
                   impulseB == (impulseScalar * pA.mass) \div totalMass
                   pA2 == [pA EXCEPT !.velocityX = @ - nx * impulseA,
                                     !.velocityY = @ - ny * impulseA]
                   pB2 == [pB EXCEPT !.velocityX = @ + nx * impulseB,
                                     !.velocityY = @ + ny * impulseB]
                   correctionDistance == (cA.radius + cB.radius) - distance
                   correction == correctionDistance \div 2
                   moveA == (correction * pB.mass) \div totalMass
                   moveB == (correction * pA.mass) \div totalMass
                   tA2 == IF correctionDistance > 0
                          THEN [tA EXCEPT !.x = @ - nx * moveA, !.y = @ - ny * moveA]
                          ELSE tA
                   tB2 == IF correctionDistance > 0
                          THEN [tB EXCEPT !.x = @ + nx * moveB, !.y = @ + ny * moveB]
                          ELSE tB
               IN  [w EXCEPT !.components[a]["Physics"] = pA2,
                             !.components[a]["Transform"] = tA2,
                             !.components[b]["Physics"] = pB2,
                             !.components[b]["Transform"] = tB2]

\* A hook call is logged as [phase, to (the collider's entity), other].
Event(phase, to, other) == [phase |-> phase, to |-> to, other |-> other]

\* collider.onCollisionStart(other): the default hook of the Collider class
\* does nothing; the projectile hook of EcsGame destroys an 'enemy' and the
\* projectile itself.
CallStartHook(w, hook, self, other) ==
  IF hook = "destroyEnemy" /\ Entity_hasTag(w, other, "enemy")
  THEN Entity_destroy(Entity_destroy(w, other), self)
  ELSE w

\* The key under which onCollision files a callback: the two tags, whatever
\* their order (the code joins them, the smaller first).
CallbackKey(tagA, tagB) == {tagA, tagB}

CollisionSystem_onCollision(callbacks, tagA, tagB) ==
  callbacks \cup {CallbackKey(tagA, tagB)}

\* A call callback(entityA, entityB, phase) of the callback filed under key.
CallbackCall(key, a, b, phase) == [key |-> key, a |-> a, b |-> b, phase |-> phase]

RECURSIVE SetToSeq(_)
SetToSeq(S) ==
  IF S = {} THEN <<>>
  ELSE LET x == CHOOSE y \in S : TRUE IN <<x>> \o SetToSeq(S \ {x})

\* the calls of the double loop over the tags of entityA and of entityB
TagCallbackCalls(st, a, b) ==
  LET combos == SetToSeq(st.w.tags[a] \X st.w.tags[b])
      registered == SelectSeq(combos,
                      LAMBDA c : CallbackKey(c[1], c[2]) \in st.callbacks)
  IN  [i \in 1..Len(registered) |->
         CallbackCall(CallbackKey(registered[i][1], registered[i][2]), a, b, "start")]

\* st = [w, newCollidingPairs, events, threw, callbacks, calls]: the locals of
\* update while it scans
CollisionSystem_handleCollisionStart(st, a, b) ==
  LET hasA == Entity_hasComponent(st.w, a, "Collider")
      hasB == Entity_hasComponent(st.w, b, "Collider")
      hookA == IF hasA THEN st.w.components[a]["Collider"].onCollisionStart ELSE "default"
      hookB == IF hasB THEN st.w.components[b]["Collider"].onCollisionStart ELSE "default"
      w1 == IF hasA THEN CallStartHook(st.w, hookA, a, b) ELSE st.w
      e1 == IF hasA THEN Append(st.events, Event("start", a, b)) ELSE st.events
      w2 == IF hasB THEN CallStartHook(w1, hookB, b, a) ELSE w1
      e2 == IF hasB THEN Append(e1, Event("start", b, a)) ELSE e1
  IN  [st EXCEPT !.w = w2, !.events = e2,
                 !.calls = @ \o TagCallbackCalls(st, a, b)]

\* handleCollisionStay that notifies nobody
CollisionSystem_handleCollisionStay_silent(st, a, b) == st

CollisionSystem_handleCollisionStay(st, a, b) ==
  LET hasA == Entity_hasComponent(st.w, a, "Collider")
      hasB == Entity_hasComponent(st.w, b, "Collider")
      e1 == IF hasA THEN Append(st.events, Event("stay", a, b)) ELSE st.events
      e2 == IF hasB THEN Append(e1, Event("stay", b, a)) ELSE e1
  IN  [st EXCEPT !.events = e2]

CollisionSystem_handleCollisionEnd(st, a, b) ==
  LET hasA == Entity_hasComponent(st.w, a, "Collider")
      hasB == Entity_hasComponent(st.w, b, "Collider")
      e1 == IF hasA THEN Append(st.events, Event("end", a, b)) ELSE st.events
      e2 == IF hasB THEN Append(e1, Event("end", b, a)) ELSE e1
  IN  [st EXCEPT !.events = e2]

\* the world with a Physics at rest given to a / b where it has none
WithRestingBodies(w, a, b) ==
  [w EXCEPT !.components =
     [e \in DOMAIN @ |->
        IF e \in {a, b} /\ "Physics" \notin DOMAIN @[e]
        THEN MapSet(@[e], "Physics", Physics(0, 0, 0)) ELSE @[e]]]

\* the inverse: the Physics components that w0 does not have are taken away
WithoutRestingBodies(w, w0) ==
  [w EXCEPT !.components =
     [e \in DOMAIN @ |->
        IF "Physics" \in DOMAIN @[e] /\ "Physics" \notin DOMAIN w0.components[e]
        THEN MapDelete(@[e], "Physics") ELSE @[e]]]

\* the loop body with a response as soon as one of the two has a Physics
ProcessPair_staticResponse(st, old, a, b) ==
  IF ~Entity_hasComponent(st.w, a, "Collider")
     \/ ~Entity_hasComponent(st.w, b, "Collider")
  THEN [st EXCEPT !.threw = TRUE]
  ELSE
  IF ~Collider_canCollideWith(st.w.components[a]["Collider"],
                              st.w.components[b]["Collider"]) THEN st
  ELSE
  LET pairKey == CollisionSystem_getPairKey(a, b)
      wasColliding == pairKey \in old
  IN  IF CollisionSystem_checkCollision(st.w, a, b)
      THEN LET s1 == [st EXCEPT !.newCollidingPairs = @ \cup {pairKey}]
               s2 == IF Entity_hasComponent(s1.w, a, "Physics")
                        \/ Entity_hasComponent(s1.w, b, "Physics")
                     THEN [s1 EXCEPT !.w = WithoutRestingBodies(
                             CollisionSystem_resolveCollision(
                               WithRestingBodies(s1.w, a, b), a, b), s1.w)]
                     ELSE s1
               s3 == IF ~wasColliding
                     THEN CollisionSystem_handleCollisionStart(s2, a, b)
                     ELSE s2
           IN  CollisionSystem_handleCollisionStay(s3, a, b)
      ELSE IF wasColliding
           THEN CollisionSystem_handleCollisionEnd(st, a, b)
           ELSE st

\* the loop body that makes the stay calls only in the updates after the start
ProcessPair_startOrStay(st, old, a, b) ==
  IF ~Entity_hasComponent(st.w, a, "Collider")
     \/ ~Entity_hasComponent(st.w, b, "Collider")
  THEN [st EXCEPT !.threw = TRUE]
  ELSE
  IF ~Collider_canCollideWith(st.w.components[a]["Collider"],
                              st.w.components[b]["Collider"]) THEN st
  ELSE
  LET pairKey == CollisionSystem_getPairKey(a, b)
      wasColliding == pairKey \in old
  IN  IF CollisionSystem_checkCollision(st.w, a, b)
      THEN LET s1 == [st EXCEPT !.newCollidingPairs = @ \cup {pairKey}]
               s2 == IF Entity_hasComponent(s1.w, a, "Physics")
                        /\ Entity_hasComponent(s1.w, b, "Physics")
                     THEN [s1 EXCEPT !.w = CollisionSystem_resolveCollision(s1.w, a, b)]
                     ELSE s1
           IN  IF ~wasColliding
               THEN CollisionSystem_handleCollisionStart(s2, a, b)
               ELSE CollisionSystem_handleCollisionStay(s2, a, b)
      ELSE IF wasColliding
           THEN CollisionSystem_handleCollisionEnd(st, a, b)
           ELSE st

\* The body of the inner loop of update for the pair (a, b); old is this.collidingPairs.
ProcessPair(st, old, a, b) ==
  IF ~Entity_hasComponent(st.w, a, "Collider")
     \/ ~Entity_hasComponent(st.w, b, "Collider")
  THEN [st EXCEPT !.threw = TRUE]   \* colliderA.canCollideWith / other.layer on null
  ELSE
  LET colliderA == st.w.components[a]["Collider"]
      colliderB == st.w.components[b]["Collider"]
  IN  IF ~Collider_canCollideWith(colliderA, colliderB) THEN st
      ELSE
      LET pairKey == CollisionSystem_getPairKey(a, b)
          wasColliding == pairKey \in old
          isColliding == CollisionSystem_checkCollision(st.w, a, b)
      IN  IF isColliding
          THEN LET s1 == [st EXCEPT !.newCollidingPairs = @ \cup {pairKey}]
                   s2 == IF Entity_hasComponent(s1.w, a, "Physics")
                            /\ Entity_hasComponent(s1.w, b, "Physics")
                         THEN [s1 EXCEPT !.w = CollisionSystem_resolveCollision(s1.w, a, b)]
                         ELSE s1
                   s3 == IF ~wasColliding
                         THEN CollisionSystem_handleCollisionStart(s2, a, b)
                         ELSE s2
               IN  CollisionSystem_handleCollisionStay(s3, a, b)
          ELSE IF wasColliding
               THEN CollisionSystem_handleCollisionEnd(st, a, b)
               ELSE st

RECURSIVE Scan(_, _, _, _, _)
Scan(st, old, arr, i, j) ==
  IF st.threw \/ i > Len(arr) THEN st
  ELSE IF j > Len(arr) THEN Scan(st, old, arr, i + 1, i + 2)
  ELSE Scan(ProcessPair(st, old, arr[i], arr[j]), old, arr, i, j + 1)

\* callbacks: this.collisionCallbacks
CollisionSystem_update(w, old, callbacks) ==
  Scan([w |-> w, newCollidingPairs |-> {}, events |-> <<>>, threw |-> FALSE,
        callbacks |-> callbacks, calls |-> <<>>],
       old, System_getEntities(w), 1, 2)

\* --------------------------------------------------------- GameObject.js
NoTag == ""

GameObject_create(w, x, y, tag) ==
  LET id == w.entityIdCounter
      w1 == World_createEntity(w)
      w2 == Entity_addComponent(w1, id, "Transform", Transform(x, y))
  IN  IF tag # NoTag THEN Entity_addTag(w2, id, tag) ELSE w2

GameObject_createCollider(w, x, y, tag, collider) ==
  LET id == w.entityIdCounter
  IN  Entity_addComponent(GameObject_create(w, x, y, tag), id, "Collider", collider)

\* --------------------------------------------------------------- Game.js
\* loadScene that calls the setup function before it destroys the entities
Game_loadScene_setupFirst(w) ==
  LET w1 == Log(w, [call |-> "setupFn", world |-> [w EXCEPT !.calls = <<>>]])
  IN  DestroyInOrder(w1, w1.entities)

\* loadScene(name) for a registered scene whose setup function adds nothing;
\* the log entry of the call of setupFn holds the world that the call finds
Game_loadScene(w) ==
  LET w1 == DestroyInOrder(w, w.entities)
  IN  Log(w1, [call |-> "setupFn", world |-> [w1 EXCEPT !.calls = <<>>]])

\* ------------------------------------------------------------- actions
Created == 0..(entityIdCounter - 1)

TypeOK ==
  /\ entityIdCounter \in 0..MaxEntities
  /\ Elems(entities) \subseteq Created
  /\ destroyed \in [Ids -> BOOLEAN]
  /\ DOMAIN components = Ids
  /\ \A e \in Ids : DOMAIN components[e] \subseteq Types
  /\ tags \in [Ids -> SUBSET Tags]
  /\ DOMAIN componentEntities \subseteq Types
  /\ DOMAIN taggedEntities \subseteq Tags
  /\ threw \in BOOLEAN
  /\ updateCount \in 0..MaxUpdates

\* ------------------------------------------------- systems (World, System)
SystemNames == {"InputSystem", "MovementSystem", "CollisionSystem",
                "ProjectileSystem", "RenderSystem"}

\* the priority each system class passes to the System constructor
InputPriority == 0
MovementPriority == 10
CollisionPriority == 20
ProjectilePriority == 20
RenderPriority == 100

\* options.priority of the constructor of each system class
DefaultPriority(s) ==
  CASE s = "InputSystem" -> InputPriority
    [] s = "MovementSystem" -> MovementPriority
    [] s = "CollisionSystem" -> CollisionPriority
    [] s = "ProjectileSystem" -> ProjectilePriority
    [] s = "RenderSystem" -> RenderPriority

\* system.priority
Priority(s) == priority[s]

\* s put in front of the systems of the same priority
InsertStable_beforeEqual(sorted, s) ==
  LET before == SelectSeq(sorted, LAMBDA t : Priority(t) < Priority(s))
      after == SelectSeq(sorted, LAMBDA t : Priority(t) >= Priority(s))
  IN  before \o <<s>> \o after

\* One step of the stable sort of Array.prototype.sort with the comparator
\* a.priority - b.priority: s goes behind every element that does not compare
\* greater. (sorted is in ascending priority.)
InsertStable(sorted, s) ==
  LET before == SelectSeq(sorted, LAMBDA t : Priority(t) <= Priority(s))
      after == SelectSeq(sorted, LAMBDA t : Priority(t) > Priority(s))
  IN  before \o <<s>> \o after

RECURSIVE SortByPriority(_)
SortByPriority(seq) ==
  IF seq = <<>> THEN <<>>
  ELSE InsertStable(SortByPriority(SubSeq(seq, 1, Len(seq) - 1)), seq[Len(seq)])

\* this.systems.push(system); this.systems.sort(...)
World_addSystem(sys, s) == SortByPriority(Append(sys, s))

\* indexOf / splice
World_removeSystem(sys, s) ==
  IF s \notin Elems(sys) THEN sys
  ELSE LET i == CHOOSE k \in 1..Len(sys) :
                  sys[k] = s /\ \A m \in 1..(k - 1) : sys[m] # s
       IN  SubSeq(sys, 1, i - 1) \o SubSeq(sys, i + 1, Len(sys))

\* the four addSystem calls of Game.init
Game_init(sys) ==
  World_addSystem(World_addSystem(World_addSystem(World_addSystem(sys,
    "InputSystem"), "MovementSystem"), "CollisionSystem"), "RenderSystem")

\* ------------------------------------------------------------ InputSystem
RawKeys == {"a", "A", " "}

\* event.key.toLowerCase()
ToLowerCase(k) == IF k = "A" THEN "a" ELSE k

Keys == {ToLowerCase(k) : k \in RawKeys}

NewInput == [keys |-> {}, keysDown |-> {}, keysUp |-> {}, wheelDelta |-> 0]

InputSystem_handleKeyDown(in, k) ==
  LET key == ToLowerCase(k)
  IN  [in EXCEPT !.keysDown = IF key \notin in.keys THEN @ \cup {key} ELSE @,
                 !.keys = @ \cup {key}]

InputSystem_handleKeyUp(in, k) ==
  LET key == ToLowerCase(k)
  IN  [in EXCEPT !.keys = @ \ {key}, !.keysUp = @ \cup {key}]

InputSystem_handleWheel(in, deltaY) == [in EXCEPT !.wheelDelta = deltaY]

InputSystem_wasKeyPressed(in, k) == ToLowerCase(k) \in in.keysDown
InputSystem_wasKeyReleased(in, k) == ToLowerCase(k) \in in.keysUp
InputSystem_getWheelDelta(in) == in.wheelDelta

InputSystem_update(in) == [in EXCEPT !.keysDown = {}, !.keysUp = {}, !.wheelDelta = 0]

\* -------------------------------------------------- Game.js: the frame loop
\* The browser's frame requests: requested counts the ids handed out by
\* requestAnimationFrame, pending holds the ids whose callback is still to run.
NoFrame == 0
NewGame == [running |-> FALSE, animationFrameId |-> NoFrame, requested |-> 0,
            pending |-> {}]

\* this.animationFrameId = requestAnimationFrame(this.gameLoop.bind(this))
RequestFrame(g) ==
  [g EXCEPT !.requested = @ + 1, !.animationFrameId = g.requested + 1,
            !.pending = @ \cup {g.requested + 1}]

Game_start(g) ==
  IF g.running THEN g ELSE RequestFrame([g EXCEPT !.running = TRUE])

\* stop that leaves the requested frame in place
Game_stop_noCancel(g) ==
  IF ~g.running THEN g ELSE [g EXCEPT !.running = FALSE]

Game_stop(g) ==
  IF ~g.running THEN g
  ELSE [g EXCEPT !.running = FALSE, !.pending = @ \ {g.animationFrameId}]

\* the end of gameLoop, after world.update: continue the loop if still running
Game_gameLoop(g) == IF g.running THEN RequestFrame(g) ELSE g

\* ------------------------------------------------ BallGame: the spawn timers
\* zombieSpawnIntervalRef.current = null
NoTimer == 0

\* The state of the component after mount: active holds the ids of the
\* intervals that setInterval made and no clearInterval ended, ref is
\* zombieSpawnIntervalRef.current, timeouts counts the pending setTimeout
\* callbacks of continueToNextRound, created the ids handed out.
NewBall == [gameState |-> "pregame", round |-> 1, roundComplete |-> FALSE,
            ref |-> NoTimer, active |-> {}, created |-> 0, timeouts |-> 0]

\* zombieSpawnIntervalRef.current = setInterval(..., 1500)
SetSpawnInterval(b) ==
  [b EXCEPT !.created = @ + 1, !.ref = b.created + 1,
            !.active = @ \cup {b.created + 1}]

\* if (zombieSpawnIntervalRef.current) { clearInterval(...); ... = null }
ClearSpawnInterval(b) ==
  IF b.ref # NoTimer THEN [b EXCEPT !.active = @ \ {b.ref}, !.ref = NoTimer] ELSE b

\* The spawn effect after a render that took the component from old to b: it
\* runs when gameState or round changed; the clean-up of the last run exists
\* if that run got past its guard.
SpawnEffect(old, b) ==
  IF old.gameState = b.gameState /\ old.round = b.round THEN b
  ELSE LET b1 == IF old.gameState = "playing" THEN ClearSpawnInterval(b) ELSE b
       IN  IF b1.gameState # "playing" THEN b1 ELSE SetSpawnInterval(b1)

BallGame_startGame(b) ==
  SpawnEffect(b, [b EXCEPT !.gameState = "playing", !.round = 1,
                           !.roundComplete = FALSE])

BallGame_resetGame(b) == SpawnEffect(b, [b EXCEPT !.gameState = "pregame"])

\* setGameState('gameover') of the collision checks
BallGame_gameOver(b) == SpawnEffect(b, [b EXCEPT !.gameState = "gameover"])

\* the effect that finds the score at the target of the round
BallGame_roundComplete(b) ==
  ClearSpawnInterval([b EXCEPT !.roundComplete = TRUE])

\* continueToNextRound, the render that follows it and the effects of it
BallGame_continueToNextRound(b) ==
  LET b1 == [b EXCEPT !.round = @ + 1, !.roundComplete = FALSE,
                      !.gameState = "playing"]
      b2 == ClearSpawnInterval(b1)
      b3 == [b2 EXCEPT !.timeouts = @ + 1]
  IN  SpawnEffect(b, b3)

\* the callback of the setTimeout(..., 2000) of continueToNextRound
BallGame_spawnTimeout(b) ==
  LET b1 == [b EXCEPT !.timeouts = @ - 1]
  IN  IF ~b1.roundComplete THEN SetSpawnInterval(b1) ELSE b1

\* ---------------------------------------------------------- MovementSystem
\* Numbers count 1/Unit: the product of two of them and the powers that the
\* friction decay needs.
Mul(a, b) == (a * b) \div Unit
Sqrt(a) == CHOOSE r \in 0..Unit : r * r = a * Unit
\* Math.pow(base, deltaTime) for a step of one second or of half a second
Pow(base, deltaTime) == IF deltaTime = Unit THEN base ELSE Sqrt(base)

NoBounds == [absent |-> TRUE]
NoMover == [absent |-> TRUE]

\* the Transform and the Physics of the entity that the system moves
Mover(x, y, vx, vy, friction, bounceX, bounceY, bounds) ==
  [x |-> x, y |-> y, rotation |-> 0,
   velocityX |-> vx, velocityY |-> vy, rotationVelocity |-> 0,
   friction |-> friction, bounceX |-> bounceX, bounceY |-> bounceY,
   bounds |-> bounds]

\* if (Math.abs(v) < 0.001) v = 0
StopSlow(v) == IF Abs(v) * 1000 < Unit THEN 0 ELSE v

\* the bounds step that damps the velocity and keeps its direction
Bounce_keepsDirection(pos, vel, bounce, min, max) ==
  IF pos < min
  THEN <<min, IF bounce # 0 THEN Mul(vel, bounce) ELSE 0>>
  ELSE IF pos > max
       THEN <<max, IF bounce # 0 THEN Mul(vel, bounce) ELSE 0>>
       ELSE <<pos, vel>>

\* one axis of the bounds step: <<position, velocity>> after it
Bounce(pos, vel, bounce, min, max) ==
  IF pos < min
  THEN <<min, IF bounce # 0 THEN Mul(-vel, bounce) ELSE 0>>
  ELSE IF pos > max
       THEN <<max, IF bounce # 0 THEN Mul(-vel, bounce) ELSE 0>>
       ELSE <<pos, vel>>

\* the body of the loop of update for one entity
MovementSystem_update(m, deltaTime) ==
  LET x1 == m.x + Mul(m.velocityX, deltaTime)
      y1 == m.y + Mul(m.velocityY, deltaTime)
      frictionFactor == Pow(Unit - m.friction, deltaTime)
      vx1 == IF m.friction > 0 THEN StopSlow(Mul(m.velocityX, frictionFactor))
             ELSE m.velocityX
      vy1 == IF m.friction > 0 THEN StopSlow(Mul(m.velocityY, frictionFactor))
             ELSE m.velocityY
      rotation1 == IF m.rotationVelocity # 0
                   THEN m.rotation + Mul(m.rotationVelocity, deltaTime)
                   ELSE m.rotation
      bx == IF m.bounds = NoBounds THEN <<x1, vx1>>
            ELSE Bounce(x1, vx1, m.bounceX, m.bounds.minX, m.bounds.maxX)
      by == IF m.bounds = NoBounds THEN <<y1, vy1>>
            ELSE Bounce(y1, vy1, m.bounceY, m.bounds.minY, m.bounds.maxY)
  IN  [m EXCEPT !.x = bx[1], !.velocityX = bx[2],
                !.y = by[1], !.velocityY = by[2],
                !.rotation = rotation1]

\* -------------------------------------------------------- ProjectileSystem
Lifetime(maxDistance, originX, originY) ==
  [maxDistance |-> maxDistance, originX |-> originX, originY |-> originY,
   distanceTraveled |-> 0]

\* Math.sqrt(dx * dx + dy * dy), for the offsets whose distance is a whole number
Hypot(dx, dy) ==
  CHOOSE r \in 0..(Abs(dx) + Abs(dy)) : r * r = dx * dx + dy * dy

\* the test of update that lets through what lies on the edge of the field
OutOfRange_edgeCounts(transform, distanceTraveled, maxDistance, width, height) ==
  \/ distanceTraveled >= maxDistance
  \/ transform.x <= 0 \/ transform.x >= width
  \/ transform.y <= 0 \/ transform.y >= height

\* the test of update: the projectile has gone too far or has left the field
OutOfRange(transform, distanceTraveled, maxDistance, width, height) ==
  \/ distanceTraveled > maxDistance
  \/ transform.x < 0 \/ transform.x > width
  \/ transform.y < 0 \/ transform.y > height

\* the body of the loop of update for the entity e
Prune(w, e, width, height) ==
  IF ~Entity_hasComponent(w, e, "Transform") \/ ~Entity_hasComponent(w, e, "Lifetime")
  THEN w
  ELSE LET transform == w.components[e]["Transform"]
           lifetime == w.components[e]["Lifetime"]
           d == Hypot(transform.x - lifetime.originX, transform.y - lifetime.originY)
           w1 == [w EXCEPT !.components[e]["Lifetime"].distanceTraveled = d]
       IN  IF OutOfRange(transform, d, lifetime.maxDistance, width, height)
           THEN Entity_destroy(w1, e)
           ELSE w1

RECURSIVE PruneAll(_, _, _, _)
PruneAll(w, todo, width, height) ==
  IF todo = <<>> THEN w
  ELSE PruneAll(Prune(w, Head(todo), width, height), Tail(todo), width, height)

\* update(deltaTime); isEnabled: this.enabled, hasWorld: this.world is set
ProjectileSystem_update(w, isEnabled, hasWorld, width, height) ==
  IF ~isEnabled \/ ~hasWorld THEN w
  ELSE PruneAll(w, World_getEntitiesWithComponents(w, <<"Lifetime">>), width, height)

\* ---------------------------------------------------------- SpatialHashGrid
\* the arguments of new SpatialHashGrid(width, height, cellSize)
GridWidth == 4
GridHeight == 4
GridCellSize == 2

\* Math.ceil(a / b), Math.floor(a / b) for b > 0
CeilDiv(a, b) == -((-a) \div b)
FloorDiv(a, b) == a \div b

GridColumns == CeilDiv(GridWidth, GridCellSize)
GridRows == CeilDiv(GridHeight, GridCellSize)

\* An entity of the GameEngine; hasSpatialCells: _spatialCells is defined
\* (it is not before the first insertEntity).
GridObject(x, y, radius) ==
  [position |-> [x |-> x, y |-> y], collider |-> [radius |-> radius],
   hasSpatialCells |-> FALSE, spatialCells |-> <<>>]

\* g = [cells, objects]: the grid and the entities it is used on
\* the cells from minCol, minRow to maxCol, maxRow, columns in the outer loop
CellRange(minCol, maxCol, minRow, maxRow) ==
  LET n == (maxCol - minCol + 1) * (maxRow - minRow + 1)
      h == maxRow - minRow + 1
  IN  IF maxCol < minCol \/ maxRow < minRow THEN <<>>
      ELSE [i \in 1..n |-> <<minCol + ((i - 1) \div h), minRow + ((i - 1) % h)>>]

RECURSIVE PushAll(_, _, _)
PushAll(cells, keys, e) ==
  IF keys = <<>> THEN cells
  ELSE LET key == Head(keys)
           cell == IF key \in DOMAIN cells THEN cells[key] ELSE <<>>
       IN  PushAll(MapSet(cells, key, Append(cell, e)), Tail(keys), e)

SpatialHashGrid_insertEntity(g, e) ==
  LET o == g.objects[e]
      x == o.position.x
      y == o.position.y
      radius == o.collider.radius
      minCol == Max(0, FloorDiv(x - radius, GridCellSize))
      maxCol == Min(GridColumns - 1, FloorDiv(x + radius, GridCellSize))
      minRow == Max(0, FloorDiv(y - radius, GridCellSize))
      maxRow == Min(GridRows - 1, FloorDiv(y + radius, GridCellSize))
      keys == CellRange(minCol, maxCol, minRow, maxRow)
  IN  [cells |-> PushAll(g.cells, keys, e),
       objects |-> [g.objects EXCEPT ![e].spatialCells = keys,
                                     ![e].hasSpatialCells = TRUE]]

\* cell.indexOf(entity), cell.splice(index, 1)
RemoveFirst(cell, e) ==
  IF e \notin Elems(cell) THEN cell
  ELSE LET i == CHOOSE k \in 1..Len(cell) :
                  cell[k] = e /\ \A m \in 1..(k - 1) : cell[m] # e
       IN  SubSeq(cell, 1, i - 1) \o SubSeq(cell, i + 1, Len(cell))

RECURSIVE SpliceAll(_, _, _)
SpliceAll(cells, keys, e) ==
  IF keys = <<>> THEN cells
  ELSE LET key == Head(keys)
       IN  IF key \notin DOMAIN cells THEN SpliceAll(cells, Tail(keys), e)
           ELSE LET cell == RemoveFirst(cells[key], e)
                IN  SpliceAll(IF cell = <<>> THEN MapDelete(cells, key)
                              ELSE MapSet(cells, key, cell),
                              Tail(keys), e)

SpatialHashGrid_removeEntity(g, e) ==
  IF ~g.objects[e].hasSpatialCells THEN g
  ELSE [cells |-> SpliceAll(g.cells, g.objects[e].spatialCells, e),
        objects |-> [g.objects EXCEPT ![e].spatialCells = <<>>]]

\* getNearbyEntities(entity), type = null; the result as a set
SpatialHashGrid_getNearbyEntities(g, e) ==
  IF ~g.objects[e].hasSpatialCells THEN {}
  ELSE LET keys == Elems(g.objects[e].spatialCells) \cap DOMAIN g.cells
       IN  UNION {Elems(g.cells[key]) : key \in keys} \ {e}

SpatialHashGrid_clear(g) == [g EXCEPT !.cells = EmptyMap]

RECURSIVE InsertFrom(_, _)
InsertFrom(g, e) ==
  IF e > Len(g.objects) THEN g
  ELSE InsertFrom(SpatialHashGrid_insertEntity(g, e), e + 1)

\* GameEngine.updateSpatialGrid: clear, then insert every entity
GameEngine_updateSpatialGrid(g) == InsertFrom(SpatialHashGrid_clear(g), 1)

\* GameEngine.checkCollision
GameEngine_checkCollision(g, a, b) ==
  LET dx == g.objects[b].position.x - g.objects[a].position.x
      dy == g.objects[b].position.y - g.objects[a].position.y
      sum == g.objects[a].collider.radius + g.objects[b].collider.radius
  IN  dx * dx + dy * dy < sum * sum

InitGame ==
  /\ mover = NoMover
  /\ moved = <<>>
  /\ game = NewGame
  /\ stopReturned = FALSE
  /\ objects = <<>>
  /\ collided = <<>>
  /\ priority = [s \in SystemNames |-> DefaultPriority(s)]
  /\ enabled = [s \in SystemNames |-> TRUE]
  /\ owner = [o \in PartNames |-> NewOwner(o)]
  /\ ball = NewBall

InitEngine ==
  /\ gridCells = EmptyMap
  /\ gridObjects = <<>>
  /\ destroyLog = [e \in Ids |-> <<>>]
  /\ collisionCallbacks = {}
  /\ callbackCalls = <<>>
  /\ systems = <<>>
  /\ systemWorld = [s \in SystemNames |-> FALSE]
  /\ addOrder = <<>>
  /\ ran = <<>>
  /\ input = NewInput
  /\ wheelLog = <<>>

InitAux ==
  /\ InitGame
  /\ InitEngine

Init ==
  /\ entityIdCounter = 0
  /\ entities = <<>>
  /\ destroyed = [e \in Ids |-> FALSE]
  /\ components = [e \in Ids |-> EmptyMap]
  /\ tags = [e \in Ids |-> {}]
  /\ componentEntities = EmptyMap
  /\ taggedEntities = EmptyMap
  /\ hookBalance = NoHooks
  /\ calls = <<>>
  /\ tracing = FALSE
  /\ collidingPairs = {}
  /\ events = <<>>
  /\ threw = FALSE
  /\ updateCount = 0
  /\ trace = <<>>
  /\ lastCheck = <<>>
  /\ everDestroyed = {}
  /\ InitAux

\* world.createEntity()
CreateEntity ==
  /\ entityIdCounter < MaxEntities
  /\ SetWorld(World_createEntity(W))
  /\ UNCHANGED <<collisionVars, auxVars>>

\* entity.addComponent(type, component)
AddComponent(e, type, c) ==
  /\ SetWorld(Entity_addComponent(W, e, type, c))
  /\ UNCHANGED <<collisionVars, auxVars>>

\* entity.removeComponent(type)
RemoveComponent(e, type) ==
  /\ SetWorld(Entity_removeComponent(W, e, type))
  /\ UNCHANGED <<collisionVars, auxVars>>

\* entity.addTag(tag)
AddTag(e, tag) ==
  /\ SetWorld(Entity_addTag(W, e, tag))
  /\ UNCHANGED <<collisionVars, auxVars>>

\* entity.removeTag(tag)
RemoveTag(e, tag) ==
  /\ SetWorld(Entity_removeTag(W, e, tag))
  /\ UNCHANGED <<collisionVars, auxVars>>

\* entity.destroy()
Destroy(e) ==
  /\ SetWorld(Entity_destroy(W, e))
  /\ UNCHANGED <<collisionVars, auxVars>>

\* world.destroyEntity(entity)
DestroyEntity(e) ==
  /\ SetWorld(World_destroyEntity(W, e))
  /\ UNCHANGED <<collisionVars, auxVars>>

\* world.clear()
Clear ==
  /\ SetWorld(World_clear(W, systems))
  /\ systems' = <<>>
  /\ systemWorld' = [s \in SystemNames |-> FALSE]
  /\ addOrder' = <<>>
  /\ UNCHANGED <<collisionVars, callbackVars, ran, input, wheelLog, gridVars,
                 destroyLog, gameVars>>

\* The registry on its own: default components, one tag.
RegistryTypes == {"Transform", "Collider"}
RegistryTags == {"enemy"}
DefaultComponent(type) ==
  IF type = "Transform" THEN Transform(0, 0)
  ELSE IF type = "Collider" THEN Collider(10 * Unit, 0, {0}, FALSE, "default")
  ELSE Physics(0, 0, 0)

Next ==
  \/ CreateEntity
  \/ \E e \in Created, t \in RegistryTypes : AddComponent(e, t, DefaultComponent(t))
  \/ \E e \in Created, t \in RegistryTypes : RemoveComponent(e, t)
  \/ \E e \in Created, g \in RegistryTags : AddTag(e, g)
  \/ \E e \in Created, g \in RegistryTags : RemoveTag(e, g)
  \/ \E e \in Created : Destroy(e)
  \/ \E e \in Created : DestroyEntity(e)
  \/ Clear

Spec == Init /\ [][Next]_vars

\* The component query on its own: entities and components, no tags.
NextQuery ==
  \/ CreateEntity
  \/ \E e \in Created, t \in RegistryTypes : AddComponent(e, t, DefaultComponent(t))
  \/ \E e \in Created, t \in RegistryTypes : RemoveComponent(e, t)
  \/ \E e \in Created : Destroy(e)

SpecQuery == Init /\ [][NextQuery]_vars

\* ------------------------------------------------ collision: the actions
\* GameObject.createCollider(world, {x, y, tag, collider})
Spawn(x, y, tag, collider) ==
  /\ entityIdCounter < MaxEntities
  /\ SetWorld(GameObject_createCollider(W, x, y, tag, collider))
  /\ UNCHANGED <<collisionVars, auxVars>>

\* transform.setPosition(x, y) on a live entity's Transform
SetPosition(e, x, y) ==
  /\ Entity_hasComponent(W, e, "Transform")
  /\ components' = [components EXCEPT ![e]["Transform"] = Transform(x, y)]
  /\ lastCheck' = <<>>
  /\ UNCHANGED <<entityIdCounter, entities, destroyed, tags, componentEntities,
                 taggedEntities, hookBalance, calls, tracing, collidingPairs, events, threw, updateCount, trace,
                 everDestroyed, auxVars>>

\* game.loadScene(name)
LoadScene ==
  /\ SetWorld(Game_loadScene(W))
  /\ UNCHANGED <<collisionVars, auxVars>>

\* What one update did to the pair (0, 1), and the hook calls it made.
Outcome(st, arr) ==
  [outcome |-> IF <<0, 1>> \in st.newCollidingPairs THEN "hit"
               ELSE IF {0, 1} \subseteq Elems(arr) THEN "miss"
               ELSE "absent",
   calls |-> st.events]

\* collisionSystem.update(deltaTime); counted: the call counts against MaxUpdates
\* and its outcome for the pair (0, 1) is appended to the trace
CollisionUpdate(counted) ==
  LET st == CollisionSystem_update(W, collidingPairs, collisionCallbacks)
  IN  /\ counted => updateCount < MaxUpdates
      /\ SetWorld(st.w)
      /\ collidingPairs' = IF st.threw THEN collidingPairs ELSE st.newCollidingPairs
      /\ events' = st.events
      /\ threw' = st.threw
      /\ updateCount' = IF counted THEN updateCount + 1 ELSE updateCount
      /\ trace' = IF counted THEN Append(trace, Outcome(st, System_getEntities(W)))
                  ELSE trace
      /\ callbackCalls' = st.calls
      /\ UNCHANGED <<lastCheck, collisionCallbacks, engineVars, gridVars, destroyLog, gameVars>>

\* collisionSystem.checkCollision(entity, player), called directly (EcsGame)
CheckCollision(a, b) ==
  /\ lastCheck' = <<CollisionSystem_checkCollision(W, a, b)>>
  /\ UNCHANGED <<worldVars, collidingPairs, events, threw, updateCount, trace,
                 everDestroyed, auxVars>>

\* ----------------------------------- collision in a world that is populated
\* Colliders of radius 1: at the same place they overlap, 2 apart they touch.
Positions == {0, 2 * Unit}
Enemy == Collider(Unit, 0, {0}, FALSE, "default")
Projectile == Collider(Unit, 0, {0}, FALSE, "destroyEnemy")

NextCollision ==
  \/ \E x \in Positions : Spawn(x, 0, "enemy", Enemy)
  \/ \E x \in Positions : Spawn(x, 0, "projectile", Projectile)
  \/ \E e \in Created, x \in Positions : SetPosition(e, x, 0)
  \/ \E e \in Created : Destroy(e)
  \/ \E e \in Created : RemoveComponent(e, "Collider")
  \/ LoadScene
  \/ CollisionUpdate(FALSE)

SpecCollision == Init /\ [][NextCollision]_vars

\* -------------------------------------------- collision of one pair of bodies
\* The scene: two circles of radius 1 on the x axis, each with or without a
\* Physics component, each collider a trigger or not.
PairPositions == {0, Unit, 3 * Unit}
NoPhysics == [absent |-> TRUE]
PhysicsChoices == {NoPhysics, Physics(0, 0, 0), Physics(Unit, 0, 0)}

WithPhysics(w, e, p) ==
  IF p = NoPhysics THEN w ELSE Entity_addComponent(w, e, "Physics", p)

EmptyWorld ==
  [entityIdCounter |-> 0, entities |-> <<>>,
   destroyed |-> [e \in Ids |-> FALSE],
   components |-> [e \in Ids |-> EmptyMap],
   tags |-> [e \in Ids |-> {}],
   componentEntities |-> EmptyMap, taggedEntities |-> EmptyMap,
   hookBalance |-> NoHooks, calls |-> <<>>]

PairScene(x0, t0, p0, x1, t1, p1) ==
  LET w1 == GameObject_createCollider(EmptyWorld, x0, 0, NoTag,
                                      Collider(Unit, 0, {0}, t0, "default"))
      w2 == WithPhysics(w1, 0, p0)
      w3 == GameObject_createCollider(w2, x1, 0, NoTag,
                                      Collider(Unit, 0, {0}, t1, "default"))
  IN  WithPhysics(w3, 1, p1)

InitPair ==
  /\ \E x0, x1 \in PairPositions, t0, t1 \in BOOLEAN, p0, p1 \in PhysicsChoices :
       LET w == PairScene(x0, t0, p0, x1, t1, p1)
       IN  /\ entityIdCounter = w.entityIdCounter
           /\ entities = w.entities
           /\ destroyed = w.destroyed
           /\ components = w.components
           /\ tags = w.tags
           /\ componentEntities = w.componentEntities
           /\ taggedEntities = w.taggedEntities
           /\ hookBalance = w.hookBalance
           /\ calls = <<>>
           /\ tracing = FALSE
  /\ collidingPairs = {}
  /\ events = <<>>
  /\ threw = FALSE
  /\ updateCount = 0
  /\ trace = <<>>
  /\ lastCheck = <<>>
  /\ everDestroyed = {}
  /\ InitAux

NextPair ==
  \/ \E e \in Created, x \in PairPositions : SetPosition(e, x, 0)
  \/ CollisionUpdate(TRUE)

SpecPair == InitPair /\ [][NextPair]_vars

\* ------------------------------------------------- destroying more than once
MaxDestroyCalls == 2

\* the onRemove calls, per type, that took the world from w to w2 for entity e
HookCalls(w, w2, e) == [t \in Types |-> w.hookBalance[e][t] - w2.hookBalance[e][t]]

\* entity.destroy(), logged
EntityDestroy(e) ==
  LET w2 == Entity_destroy(W, e)
  IN  /\ Len(destroyLog[e]) < MaxDestroyCalls
      /\ SetWorld(w2)
      /\ destroyLog' = [destroyLog EXCEPT ![e] = Append(@, HookCalls(W, w2, e))]
      /\ UNCHANGED <<collisionVars, callbackVars, engineVars, gridVars, gameVars>>

\* world.destroyEntity(entity), logged
WorldDestroyEntity(e) ==
  LET w2 == World_destroyEntity(W, e)
  IN  /\ Len(destroyLog[e]) < MaxDestroyCalls
      /\ SetWorld(w2)
      /\ destroyLog' = [destroyLog EXCEPT ![e] = Append(@, HookCalls(W, w2, e))]
      /\ UNCHANGED <<collisionVars, callbackVars, engineVars, gridVars, gameVars>>

\* The scene: two circles, each with or without a Physics, with or without
\* the tag 'enemy'.
SceneTags == {NoTag, "enemy"}

DestroyScene(g0, p0, g1, p1) ==
  LET w1 == GameObject_createCollider(EmptyWorld, 0, 0, g0,
                                      Collider(Unit, 0, {0}, FALSE, "default"))
      w2 == WithPhysics(w1, 0, p0)
      w3 == GameObject_createCollider(w2, 0, 0, g1,
                                      Collider(Unit, 0, {0}, FALSE, "default"))
  IN  WithPhysics(w3, 1, p1)

InitDestroy ==
  /\ \E g0, g1 \in SceneTags, p0, p1 \in PhysicsChoices :
       LET w == DestroyScene(g0, p0, g1, p1)
       IN  /\ entityIdCounter = w.entityIdCounter
           /\ entities = w.entities
           /\ destroyed = w.destroyed
           /\ components = w.components
           /\ tags = w.tags
           /\ componentEntities = w.componentEntities
           /\ taggedEntities = w.taggedEntities
           /\ hookBalance = w.hookBalance
           /\ calls = <<>>
           /\ tracing = FALSE
  /\ collidingPairs = {}
  /\ events = <<>>
  /\ threw = FALSE
  /\ updateCount = 0
  /\ trace = <<>>
  /\ lastCheck = <<>>
  /\ everDestroyed = {}
  /\ InitAux

NextDestroy ==
  \/ \E e \in Created, t \in RegistryTypes : AddComponent(e, t, DefaultComponent(t))
  \/ \E e \in Created, t \in RegistryTypes : RemoveComponent(e, t)
  \/ \E e \in Created, g \in RegistryTags : AddTag(e, g)
  \/ \E e \in Created : EntityDestroy(e)
  \/ \E e \in Created : WorldDestroyEntity(e)

SpecDestroy == InitDestroy /\ [][NextDestroy]_vars

\* ------------------------------------------------ one pair and its layers
\* Two bodies at rest; each collider on layer 0 or 1, colliding with layer 0
\* or with layer 1.
LayerChoices == {<<0, {0}>>, <<1, {0}>>, <<1, {1}>>}

LayerScene(x0, l0, x1, l1) ==
  LET w1 == GameObject_createCollider(EmptyWorld, x0, 0, NoTag,
                                      Collider(Unit, l0[1], l0[2], FALSE, "default"))
      w2 == WithPhysics(w1, 0, Physics(0, 0, 0))
      w3 == GameObject_createCollider(w2, x1, 0, NoTag,
                                      Collider(Unit, l1[1], l1[2], FALSE, "default"))
  IN  WithPhysics(w3, 1, Physics(0, 0, 0))

InitLayer ==
  /\ \E x0, x1 \in PairPositions, l0, l1 \in LayerChoices :
       LET w == LayerScene(x0, l0, x1, l1)
       IN  /\ entityIdCounter = w.entityIdCounter
           /\ entities = w.entities
           /\ destroyed = w.destroyed
           /\ components = w.components
           /\ tags = w.tags
           /\ componentEntities = w.componentEntities
           /\ taggedEntities = w.taggedEntities
           /\ hookBalance = w.hookBalance
           /\ calls = <<>>
           /\ tracing = FALSE
  /\ collidingPairs = {}
  /\ events = <<>>
  /\ threw = FALSE
  /\ updateCount = 0
  /\ trace = <<>>
  /\ lastCheck = <<>>
  /\ everDestroyed = {}
  /\ InitAux

\* collider.setLayers(layer, collidesWith)
SetLayers(e, layer, collidesWith) ==
  /\ Entity_hasComponent(W, e, "Collider")
  /\ components' = [components EXCEPT ![e]["Collider"] =
                      Collider_setLayers(@, layer, collidesWith)]
  /\ UNCHANGED <<entityIdCounter, entities, destroyed, tags, componentEntities,
                 taggedEntities, hookBalance, calls, tracing, collisionVars, everDestroyed, auxVars>>

NextLayer ==
  \/ \E e \in Created, x \in PairPositions : SetPosition(e, x, 0)
  \/ \E e \in Created, l \in LayerChoices : SetLayers(e, l[1], l[2])
  \/ CollisionUpdate(TRUE)

SpecLayer == InitLayer /\ [][NextLayer]_vars

\* ------------------------------------------------ the narrow phase on its own
\* Two circles anywhere on a small grid; coordinates and radii count 1/Unit,
\* which the comparison of checkCollision does not depend on.
NarrowXs == {0, 6, 10}
NarrowYs == {0, 8}
NarrowRadii == {3, 5}

NarrowScene(x0, y0, r0, x1, y1, r1) ==
  GameObject_createCollider(
    GameObject_createCollider(EmptyWorld, x0, y0, NoTag,
                              Collider(r0, 0, {0}, FALSE, "default")),
    x1, y1, NoTag, Collider(r1, 0, {0}, FALSE, "default"))

InitNarrow ==
  /\ \E x0, x1 \in NarrowXs, y0, y1 \in NarrowYs, r0, r1 \in NarrowRadii :
       LET w == NarrowScene(x0, y0, r0, x1, y1, r1)
       IN  /\ entityIdCounter = w.entityIdCounter
           /\ entities = w.entities
           /\ destroyed = w.destroyed
           /\ components = w.components
           /\ tags = w.tags
           /\ componentEntities = w.componentEntities
           /\ taggedEntities = w.taggedEntities
           /\ hookBalance = w.hookBalance
           /\ calls = <<>>
           /\ tracing = FALSE
  /\ collidingPairs = {}
  /\ events = <<>>
  /\ threw = FALSE
  /\ updateCount = 0
  /\ trace = <<>>
  /\ lastCheck = <<>>
  /\ everDestroyed = {}
  /\ InitAux

NextNarrow ==
  \/ \E e \in Created, x \in NarrowXs, y \in NarrowYs : SetPosition(e, x, y)
  \/ CheckCollision(0, 1)

SpecNarrow == InitNarrow /\ [][NextNarrow]_vars

\* ------------------------------------------ collision callbacks by tag pair
\* collisionSystem.onCollision(tagA, tagB, callback)
OnCollision(tagA, tagB) ==
  /\ collisionCallbacks' = CollisionSystem_onCollision(collisionCallbacks, tagA, tagB)
  /\ UNCHANGED <<worldVars, collisionVars, everDestroyed, destroyLog, gameVars, callbackCalls, engineVars, gridVars>>

NextCallback ==
  \/ \E x \in Positions, tag \in Tags : Spawn(x, 0, tag, Enemy)
  \/ \E tagA, tagB \in Tags : OnCollision(tagA, tagB)
  \/ \E e \in Created, x \in Positions : SetPosition(e, x, 0)
  \/ CollisionUpdate(FALSE)

SpecCallback == Init /\ [][NextCallback]_vars

\* ------------------------------------------------ the systems of the world
\* The worlds of SpecSystem and SpecInput hold no entity: the loops over the
\* entities in the update methods of the movement, projectile, collision and
\* render systems have nothing to do, InputSystem.update does its clearing.
MaxWheelEvents == 2
WheelDeltas == {-1, 1}

RemoveFromSeq(seq, s) == SelectSeq(seq, LAMBDA t : t # s)

\* world.addSystem(system), of a system that is not registered
AddSystem(s) ==
  /\ s \notin Elems(systems)
  /\ systems' = World_addSystem(systems, s)
  /\ systemWorld' = [systemWorld EXCEPT ![s] = TRUE]
  /\ addOrder' = Append(addOrder, s)
  /\ UNCHANGED <<worldVars, collisionVars, everDestroyed, destroyLog, gameVars, callbackVars, gridVars,
                 ran, input, wheelLog>>

\* world.removeSystem(system)
RemoveSystem(s) ==
  /\ systems' = World_removeSystem(systems, s)
  /\ systemWorld' = IF s \in Elems(systems)
                    THEN [systemWorld EXCEPT ![s] = FALSE] ELSE systemWorld
  /\ addOrder' = IF s \in Elems(systems) THEN RemoveFromSeq(addOrder, s) ELSE addOrder
  /\ UNCHANGED <<worldVars, collisionVars, everDestroyed, destroyLog, gameVars, callbackVars, gridVars,
                 ran, input, wheelLog>>

GameSystems == <<"InputSystem", "MovementSystem", "CollisionSystem", "RenderSystem">>

\* game.init()
GameInit ==
  /\ Elems(GameSystems) \cap Elems(systems) = {}
  /\ systems' = Game_init(systems)
  /\ systemWorld' = [s \in SystemNames |-> s \in Elems(GameSystems) \/ systemWorld[s]]
  /\ addOrder' = addOrder \o GameSystems
  /\ UNCHANGED <<worldVars, collisionVars, everDestroyed, destroyLog, gameVars, callbackVars, gridVars,
                 ran, input, wheelLog>>

\* The loop of World.update over sys[i..]: each system's update runs with the
\* InputSystem in the state in; log gets what the system finds in the edge
\* sets when its update starts.
RECURSIVE RunSystems(_, _, _, _)
RunSystems(sys, i, in, log) ==
  IF i > Len(sys) THEN [input |-> in, ran |-> log]
  ELSE RunSystems(sys, i + 1,
                  IF sys[i] = "InputSystem" THEN InputSystem_update(in) ELSE in,
                  Append(log, [system |-> sys[i],
                               pressed |-> {k \in Keys : InputSystem_wasKeyPressed(in, k)},
                               released |-> {k \in Keys : InputSystem_wasKeyReleased(in, k)}]))

\* world.update(deltaTime)
WorldUpdate ==
  LET r == RunSystems(systems, 1, input, <<>>)
  IN  /\ entities = <<>>
      /\ input' = r.input
      /\ ran' = r.ran
      /\ wheelLog' = IF "InputSystem" \in Elems(systems) THEN <<>> ELSE wheelLog
      /\ UNCHANGED <<worldVars, collisionVars, everDestroyed, destroyLog, gameVars, callbackVars, gridVars,
                     systems, systemWorld, addOrder>>

\* the listeners that InputSystem.onAdd attaches
KeyDown(k) ==
  /\ systemWorld["InputSystem"]
  /\ input' = InputSystem_handleKeyDown(input, k)
  /\ UNCHANGED <<worldVars, collisionVars, everDestroyed, destroyLog, gameVars, callbackVars, gridVars,
                 systems, systemWorld, addOrder, ran, wheelLog>>

KeyUp(k) ==
  /\ systemWorld["InputSystem"]
  /\ input' = InputSystem_handleKeyUp(input, k)
  /\ UNCHANGED <<worldVars, collisionVars, everDestroyed, destroyLog, gameVars, callbackVars, gridVars,
                 systems, systemWorld, addOrder, ran, wheelLog>>

Wheel(deltaY) ==
  /\ systemWorld["InputSystem"]
  /\ Len(wheelLog) < MaxWheelEvents
  /\ input' = InputSystem_handleWheel(input, deltaY)
  /\ wheelLog' = Append(wheelLog, deltaY)
  /\ UNCHANGED <<worldVars, collisionVars, everDestroyed, destroyLog, gameVars, callbackVars, gridVars,
                 systems, systemWorld, addOrder, ran>>

NextSystem ==
  \/ \E s \in SystemNames : AddSystem(s)
  \/ \E s \in SystemNames : RemoveSystem(s)
  \/ GameInit
  \/ WorldUpdate

SpecSystem == Init /\ [][NextSystem]_vars

\* the set-up of EcsGame: game.init(), then addSystem(new ProjectileSystem)
EcsGameSystems == Append(GameSystems, "ProjectileSystem")

InitInput ==
  /\ entityIdCounter = 0
  /\ entities = <<>>
  /\ destroyed = [e \in Ids |-> FALSE]
  /\ components = [e \in Ids |-> EmptyMap]
  /\ tags = [e \in Ids |-> {}]
  /\ componentEntities = EmptyMap
  /\ taggedEntities = EmptyMap
  /\ hookBalance = NoHooks
  /\ calls = <<>>
  /\ tracing = FALSE
  /\ collidingPairs = {}
  /\ events = <<>>
  /\ threw = FALSE
  /\ updateCount = 0
  /\ trace = <<>>
  /\ lastCheck = <<>>
  /\ everDestroyed = {}
  /\ destroyLog = [e \in Ids |-> <<>>]
  /\ InitGame
  /\ collisionCallbacks = {}
  /\ callbackCalls = <<>>
  /\ systems = World_addSystem(Game_init(<<>>), "ProjectileSystem")
  /\ systemWorld = [s \in SystemNames |-> TRUE]
  /\ addOrder = EcsGameSystems
  /\ ran = <<>>
  /\ input = NewInput
  /\ wheelLog = <<>>
  /\ gridCells = EmptyMap
  /\ gridObjects = <<>>

NextInput ==
  \/ \E k \in RawKeys : KeyDown(k)
  \/ \E k \in RawKeys : KeyUp(k)
  \/ \E d \in WheelDeltas : Wheel(d)
  \/ WorldUpdate

SpecInput == InitInput /\ [][NextInput]_vars

\* ------------------------------------------------------ the grid broad phase
MaxGridEntities == 2
MaxBucket == 3
GridXs == {-3, 0, 1, 3, 7}
GridYs == {1, 3}
GridRadii == {1, 2}
GridIds == 1..MaxGridEntities

G == [cells |-> gridCells, objects |-> gridObjects]

SetGrid(g) ==
  /\ gridCells' = g.cells
  /\ gridObjects' = g.objects

InitGrid ==
  /\ entityIdCounter = 0
  /\ entities = <<>>
  /\ destroyed = [e \in Ids |-> FALSE]
  /\ components = [e \in Ids |-> EmptyMap]
  /\ tags = [e \in Ids |-> {}]
  /\ componentEntities = EmptyMap
  /\ taggedEntities = EmptyMap
  /\ hookBalance = NoHooks
  /\ calls = <<>>
  /\ tracing = FALSE
  /\ collidingPairs = {}
  /\ events = <<>>
  /\ threw = FALSE
  /\ updateCount = 0
  /\ trace = <<>>
  /\ lastCheck = <<>>
  /\ everDestroyed = {}
  /\ destroyLog = [e \in Ids |-> <<>>]
  /\ InitGame
  /\ collisionCallbacks = {}
  /\ callbackCalls = <<>>
  /\ systems = <<>>
  /\ systemWorld = [s \in SystemNames |-> FALSE]
  /\ addOrder = <<>>
  /\ ran = <<>>
  /\ input = NewInput
  /\ wheelLog = <<>>
  /\ gridCells = EmptyMap
  /\ gridObjects \in [GridIds -> {GridObject(x, y, r) :
                                   x \in GridXs, y \in GridYs, r \in GridRadii}]

\* spatialGrid.insertEntity(entity)
InsertEntity(e) ==
  /\ \A key \in DOMAIN gridCells : Len(gridCells[key]) < MaxBucket
  /\ SetGrid(SpatialHashGrid_insertEntity(G, e))
  /\ UNCHANGED <<worldVars, collisionVars, everDestroyed, destroyLog, gameVars, callbackVars, engineVars>>

\* spatialGrid.removeEntity(entity)
RemoveEntity(e) ==
  /\ SetGrid(SpatialHashGrid_removeEntity(G, e))
  /\ UNCHANGED <<worldVars, collisionVars, everDestroyed, destroyLog, gameVars, callbackVars, engineVars>>

\* entity.position.x = x
MoveEntity(e, x) ==
  /\ gridObjects' = [gridObjects EXCEPT ![e].position.x = x]
  /\ UNCHANGED <<worldVars, collisionVars, everDestroyed, destroyLog, gameVars, callbackVars, engineVars,
                 gridCells>>

\* gameEngine.updateSpatialGrid()
UpdateSpatialGrid ==
  /\ SetGrid(GameEngine_updateSpatialGrid(G))
  /\ UNCHANGED <<worldVars, collisionVars, everDestroyed, destroyLog, gameVars, callbackVars, engineVars>>

NextGrid ==
  \/ \E e \in GridIds : InsertEntity(e)
  \/ \E e \in GridIds : RemoveEntity(e)
  \/ \E e \in GridIds, x \in GridXs : MoveEntity(e, x)
  \/ UpdateSpatialGrid

SpecGrid == InitGrid /\ [][NextGrid]_vars

\* ------------------------------------------------- the order of the hooks
\* The scene of two circles with the call log switched on; components are
\* added (also over one that is held), removed, tags set, entities destroyed,
\* the systems of Game.init registered, the world cleared, a scene loaded.
ReplacementChoices(type) ==
  IF type = "Transform" THEN {Transform(0, 0), Transform(Unit, 0)}
  ELSE {Collider(Unit, 0, {0}, FALSE, "default"),
        Collider(2 * Unit, 0, {0}, FALSE, "default")}

InitHooks ==
  /\ \E g0 \in SceneTags, p0 \in PhysicsChoices :
       LET w == DestroyScene(g0, p0, NoTag, NoPhysics)
       IN  /\ entityIdCounter = w.entityIdCounter
           /\ entities = w.entities
           /\ destroyed = w.destroyed
           /\ components = w.components
           /\ tags = w.tags
           /\ componentEntities = w.componentEntities
           /\ taggedEntities = w.taggedEntities
           /\ hookBalance = w.hookBalance
           /\ calls = <<>>
           /\ tracing = TRUE
  /\ collidingPairs = {}
  /\ events = <<>>
  /\ threw = FALSE
  /\ updateCount = 0
  /\ trace = <<>>
  /\ lastCheck = <<>>
  /\ everDestroyed = {}
  /\ InitAux

NextHooks ==
  \/ \E e \in Created, t \in RegistryTypes :
       \E c \in ReplacementChoices(t) : AddComponent(e, t, c)
  \/ \E e \in Created, t \in RegistryTypes : RemoveComponent(e, t)
  \/ \E e \in Created, g \in RegistryTags : AddTag(e, g)
  \/ \E e \in Created, g \in RegistryTags : RemoveTag(e, g)
  \/ \E e \in Created : Destroy(e)
  \/ GameInit
  \/ Clear
  \/ LoadScene

SpecHooks == InitHooks /\ [][NextHooks]_vars

\* ------------------------------------------------------ the ids of a world
\* One world from its construction, with the call log switched on: entities
\* are created, tagged, destroyed, the world cleared.
InitIds ==
  /\ entityIdCounter = 0
  /\ entities = <<>>
  /\ destroyed = [e \in Ids |-> FALSE]
  /\ components = [e \in Ids |-> EmptyMap]
  /\ tags = [e \in Ids |-> {}]
  /\ componentEntities = EmptyMap
  /\ taggedEntities = EmptyMap
  /\ hookBalance = NoHooks
  /\ calls = <<>>
  /\ tracing = TRUE
  /\ collidingPairs = {}
  /\ events = <<>>
  /\ threw = FALSE
  /\ updateCount = 0
  /\ trace = <<>>
  /\ lastCheck = <<>>
  /\ everDestroyed = {}
  /\ InitAux

NextIds ==
  \/ CreateEntity
  \/ \E e \in Created, g \in Tags : AddTag(e, g)
  \/ \E e \in Created : Destroy(e)
  \/ \E e \in Created : DestroyEntity(e)
  \/ Clear

SpecIds == InitIds /\ [][NextIds]_vars

\* --------------------------------------------------- one entity that moves
MaxMoveSteps == 2

MoveXs == {0, Unit}
MoveVelocities == {-4 * Unit, 0, 2 * Unit}
Frictions == {0, 3 * (Unit \div 4)}
Bounces == {0, Unit \div 2}
BoundsChoices == {NoBounds, [minX |-> 0, minY |-> 0, maxX |-> 2 * Unit, maxY |-> 2 * Unit]}
DeltaTimes == {Unit \div 2, Unit}

InitMove ==
  /\ entityIdCounter = 0
  /\ entities = <<>>
  /\ destroyed = [e \in Ids |-> FALSE]
  /\ components = [e \in Ids |-> EmptyMap]
  /\ tags = [e \in Ids |-> {}]
  /\ componentEntities = EmptyMap
  /\ taggedEntities = EmptyMap
  /\ hookBalance = NoHooks
  /\ calls = <<>>
  /\ tracing = FALSE
  /\ collidingPairs = {}
  /\ events = <<>>
  /\ threw = FALSE
  /\ updateCount = 0
  /\ trace = <<>>
  /\ lastCheck = <<>>
  /\ everDestroyed = {}
  /\ InitEngine
  /\ \E x \in MoveXs, vx, vy \in MoveVelocities, f \in Frictions,
        bx, by \in Bounces, b \in BoundsChoices :
       mover = Mover(x, Unit, vx, vy, f, bx, by, b)
  /\ moved = <<>>
  /\ game = NewGame
  /\ stopReturned = FALSE
  /\ objects = <<>>
  /\ collided = <<>>
  /\ priority = [s \in SystemNames |-> DefaultPriority(s)]
  /\ enabled = [s \in SystemNames |-> TRUE]
  /\ owner = [o \in PartNames |-> NewOwner(o)]
  /\ ball = NewBall

\* movementSystem.update(deltaTime)
MovementUpdate(deltaTime) ==
  /\ Len(moved) < MaxMoveSteps
  /\ mover' = MovementSystem_update(mover, deltaTime)
  /\ moved' = Append(moved, [before |-> mover, deltaTime |-> deltaTime])
  /\ UNCHANGED <<worldVars, collisionVars, everDestroyed, destroyLog, callbackVars,
                 engineVars, gridVars, loopVars, utilVars, schedVars, owner, ball>>

NextMove == \E deltaTime \in DeltaTimes : MovementUpdate(deltaTime)

SpecMove == InitMove /\ [][NextMove]_vars

\* ------------------------------------------------- the pruning of projectiles
\* A field of 5 x 6 and two entities. The first is a projectile fired from
\* (1, 1); the second is a projectile, holds a Lifetime and no Transform, or
\* holds a Transform and no Lifetime. Entities move, the ProjectileSystem is
\* removed and added, and updates.
FieldWidth == 5
FieldHeight == 6
ProjectilePositions ==
  {<<1, 1>>, <<4, 1>>, <<5, 1>>, <<6, 1>>, <<-2, 1>>, <<1, 5>>, <<1, 6>>,
   <<1, 7>>, <<1, -2>>, <<4, 5>>, <<0, 1>>, <<1, 0>>}
MaxDistances == {4, 5}
SecondKinds == {"projectile", "no Transform", "no Lifetime"}

ProjectileScene(p0, m0, k1, p1) ==
  LET w1 == World_createEntity(EmptyWorld)
      w2 == Entity_addComponent(w1, 0, "Transform", Transform(p0[1], p0[2]))
      w3 == Entity_addComponent(w2, 0, "Lifetime", Lifetime(m0, 1, 1))
      w4 == World_createEntity(w3)
      w5 == IF k1 = "no Transform" THEN w4
            ELSE Entity_addComponent(w4, 1, "Transform", Transform(p1[1], p1[2]))
  IN  IF k1 = "no Lifetime" THEN w5
      ELSE Entity_addComponent(w5, 1, "Lifetime", Lifetime(4, 1, 1))

InitProjectile ==
  /\ \E p0 \in ProjectilePositions, m0 \in MaxDistances, k1 \in SecondKinds,
        p1 \in {<<1, 1>>, <<6, 1>>} :
       LET w == ProjectileScene(p0, m0, k1, p1)
       IN  /\ entityIdCounter = w.entityIdCounter
           /\ entities = w.entities
           /\ destroyed = w.destroyed
           /\ components = w.components
           /\ tags = w.tags
           /\ componentEntities = w.componentEntities
           /\ taggedEntities = w.taggedEntities
           /\ hookBalance = w.hookBalance
           /\ calls = <<>>
           /\ tracing = TRUE
  /\ collidingPairs = {}
  /\ events = <<>>
  /\ threw = FALSE
  /\ updateCount = 0
  /\ trace = <<>>
  /\ lastCheck = <<>>
  /\ everDestroyed = {}
  /\ destroyLog = [e \in Ids |-> <<>>]
  /\ InitGame
  /\ collisionCallbacks = {}
  /\ callbackCalls = <<>>
  /\ systems = World_addSystem(Game_init(<<>>), "ProjectileSystem")
  /\ systemWorld = [s \in SystemNames |-> TRUE]
  /\ addOrder = EcsGameSystems
  /\ ran = <<>>
  /\ input = NewInput
  /\ wheelLog = <<>>
  /\ gridCells = EmptyMap
  /\ gridObjects = <<>>

\* projectileSystem.update(deltaTime)
ProjectileUpdate ==
  /\ SetWorld(ProjectileSystem_update(W, enabled["ProjectileSystem"],
                                      systemWorld["ProjectileSystem"],
                                      FieldWidth, FieldHeight))
  /\ UNCHANGED <<collisionVars, auxVars>>

NextProjectile ==
  \/ \E e \in Created, p \in ProjectilePositions : SetPosition(e, p[1], p[2])
  \/ AddSystem("ProjectileSystem")
  \/ RemoveSystem("ProjectileSystem")
  \/ ProjectileUpdate

SpecProjectile == InitProjectile /\ [][NextProjectile]_vars

\* ------------------------------------------------------------ the frame loop
\* The game of EcsGame after its set-up. start is called from outside the
\* loop, between two frames (EcsGame.js:116); stop is called between two frames
\* (EcsGame.js:134) or by code that runs inside world.update; the browser
\* runs the callback of a requested frame; keys go down and up. The time
\* stamps and the frame counter of gameLoop are left out.
MaxFrames == 4

\* game.start()
Start ==
  /\ game.requested < MaxFrames
  /\ game' = Game_start(game)
  /\ stopReturned' = FALSE
  /\ UNCHANGED <<worldVars, collisionVars, everDestroyed, destroyLog, callbackVars,
                 engineVars, gridVars, moveVars, utilVars, schedVars, owner, ball>>

\* game.stop()
Stop ==
  /\ game' = Game_stop(game)
  /\ stopReturned' = TRUE
  /\ UNCHANGED <<worldVars, collisionVars, everDestroyed, destroyLog, callbackVars,
                 engineVars, gridVars, moveVars, utilVars, schedVars, owner, ball>>

\* the browser runs the callback of the requested frame id: gameLoop(timestamp);
\* stops: something that world.update runs calls game.stop()
Frame(id, stops) ==
  LET r == RunSystems(systems, 1, input, <<>>)
      g1 == [game EXCEPT !.pending = @ \ {id}]
      g2 == IF stops THEN Game_stop(g1) ELSE g1
  IN  /\ id \in game.pending
      /\ game.requested < MaxFrames
      /\ entities = <<>>
      /\ input' = r.input
      /\ ran' = r.ran
      /\ wheelLog' = IF "InputSystem" \in Elems(systems) THEN <<>> ELSE wheelLog
      /\ game' = Game_gameLoop(g2)
      /\ stopReturned' = (stops \/ stopReturned)
      /\ UNCHANGED <<worldVars, collisionVars, everDestroyed, destroyLog, callbackVars,
                     gridVars, systems, systemWorld, addOrder, moveVars, utilVars, schedVars, owner, ball>>

NextLoop ==
  \/ Start
  \/ Stop
  \/ \E id \in 1..MaxFrames, stops \in BOOLEAN : Frame(id, stops)
  \/ \E k \in RawKeys : KeyDown(k)
  \/ \E k \in RawKeys : KeyUp(k)

SpecLoop == InitInput /\ [][NextLoop]_vars

\* the browser runs gameLoop for the frame id, and something that
\* world.update runs calls game.stop() and then game.start()
FrameRestarting(id) ==
  LET r == RunSystems(systems, 1, input, <<>>)
      g1 == [game EXCEPT !.pending = @ \ {id}]
      g2 == Game_start(Game_stop(g1))
  IN  /\ id \in game.pending
      /\ game.requested + 1 < MaxFrames
      /\ entities = <<>>
      /\ input' = r.input
      /\ ran' = r.ran
      /\ wheelLog' = IF "InputSystem" \in Elems(systems) THEN <<>> ELSE wheelLog
      /\ game' = Game_gameLoop(g2)
      /\ stopReturned' = FALSE
      /\ UNCHANGED <<worldVars, collisionVars, everDestroyed, destroyLog, callbackVars,
                     gridVars, systems, systemWorld, addOrder, moveVars, utilVars,
                     schedVars, owner, ball>>

NextRestart ==
  \/ Start
  \/ Stop
  \/ \E id \in 1..MaxFrames, stops \in BOOLEAN : Frame(id, stops)
  \/ \E id \in 1..MaxFrames : FrameRestarting(id)
  \/ \E k \in RawKeys : KeyDown(k)

SpecRestart == InitInput /\ [][NextRestart]_vars

\* ------------------------------------------------- utils/gameUtils.js
\* Math.sqrt(dx * dx + dy * dy) between two points, for the points whose
\* distance is a whole number
calculateDistance(point1, point2) ==
  Hypot(point2.x - point1.x, point2.y - point1.y)

\* the comparison that leaves out two objects that touch
checkCollision_strict(obj1, obj2) ==
  LET distance == calculateDistance([x |-> obj1.x, y |-> obj1.y],
                                    [x |-> obj2.x, y |-> obj2.y])
  IN  distance < (obj1.size + obj2.size) \div 2

\* checkCollision(obj1, obj2); the sizes are even, so that the halving is exact
checkCollision(obj1, obj2) ==
  LET distance == calculateDistance([x |-> obj1.x, y |-> obj1.y],
                                    [x |-> obj2.x, y |-> obj2.y])
  IN  distance <= (obj1.size + obj2.size) \div 2

\* The corners of a 6 x 8 rectangle are 0, 6, 8 or 10 apart; with sizes 4, 8
\* and 12 half the sum of two sizes is 4, 6, 8, 10 or 12.
ObjectXs == {0, 6}
ObjectYs == {0, 8}
ObjectSizes == {4, 8, 12}
Objects == [x : ObjectXs, y : ObjectYs, size : ObjectSizes]

InitUtil ==
  /\ entityIdCounter = 0
  /\ entities = <<>>
  /\ destroyed = [e \in Ids |-> FALSE]
  /\ components = [e \in Ids |-> EmptyMap]
  /\ tags = [e \in Ids |-> {}]
  /\ componentEntities = EmptyMap
  /\ taggedEntities = EmptyMap
  /\ hookBalance = NoHooks
  /\ calls = <<>>
  /\ tracing = FALSE
  /\ collidingPairs = {}
  /\ events = <<>>
  /\ threw = FALSE
  /\ updateCount = 0
  /\ trace = <<>>
  /\ lastCheck = <<>>
  /\ everDestroyed = {}
  /\ InitEngine
  /\ mover = NoMover
  /\ moved = <<>>
  /\ game = NewGame
  /\ stopReturned = FALSE
  /\ objects \in [1..2 -> Objects]
  /\ collided = <<>>
  /\ priority = [s \in SystemNames |-> DefaultPriority(s)]
  /\ enabled = [s \in SystemNames |-> TRUE]
  /\ owner = [o \in PartNames |-> NewOwner(o)]
  /\ ball = NewBall

\* an object of the caller moves
MoveObject(i, x, y) ==
  /\ objects' = [objects EXCEPT ![i].x = x, ![i].y = y]
  /\ UNCHANGED <<worldVars, collisionVars, everDestroyed, destroyLog, callbackVars,
                 engineVars, gridVars, moveVars, loopVars, schedVars, owner, ball, collided>>

\* checkCollision(objects[a], objects[b])
CheckObjects(a, b) ==
  /\ collided' = <<checkCollision(objects[a], objects[b])>>
  /\ UNCHANGED <<worldVars, collisionVars, everDestroyed, destroyLog, callbackVars,
                 engineVars, gridVars, moveVars, loopVars, schedVars, owner, ball, objects>>

NextUtil ==
  \/ \E i \in 1..2, x \in ObjectXs, y \in ObjectYs : MoveObject(i, x, y)
  \/ CheckObjects(1, 2)

SpecUtil == InitUtil /\ [][NextUtil]_vars

\* ------------------- priorities, the enabled flag and removal inside update
\* system.setPriority(priority)
System_setPriority(prio, s, p) == [prio EXCEPT ![s] = p]

\* system.setEnabled(enabled)
System_setEnabled(en, s, b) == [en EXCEPT ![s] = b]

\* the priorities that setPriority is called with
PriorityChoices == {50}
\* the systems whose priority or enabled flag the caller changes
TunedSystems == {"InputSystem", "CollisionSystem"}
SwitchedSystems == {"InputSystem", "ProjectileSystem"}

SetPriority(s, p) ==
  /\ priority' = System_setPriority(priority, s, p)
  /\ UNCHANGED <<worldVars, collisionVars, everDestroyed, destroyLog, callbackVars,
                 gridVars, engineVars, moveVars, loopVars, utilVars, owner, ball, enabled>>

SetEnabled(s, b) ==
  /\ enabled' = System_setEnabled(enabled, s, b)
  /\ UNCHANGED <<worldVars, collisionVars, everDestroyed, destroyLog, callbackVars,
                 gridVars, engineVars, moveVars, loopVars, utilVars, owner, ball, priority>>

\* The loop of World.update, for (const system of this.systems), when the
\* update of the system s calls world.removeSystem(t): the iterator keeps an
\* index into the array that removeSystem splices.
RECURSIVE RunSystemsRemoving(_, _, _, _, _, _)
RunSystemsRemoving(sys, i, in, log, s, t) ==
  IF i > Len(sys) THEN [systems |-> sys, input |-> in, ran |-> log]
  ELSE RunSystemsRemoving(
         IF sys[i] = s THEN World_removeSystem(sys, t) ELSE sys,
         i + 1,
         IF sys[i] = "InputSystem" THEN InputSystem_update(in) ELSE in,
         Append(log, [system |-> sys[i],
                      pressed |-> {k \in Keys : InputSystem_wasKeyPressed(in, k)},
                      released |-> {k \in Keys : InputSystem_wasKeyReleased(in, k)}]),
         s, t)

\* world.update(deltaTime) with a system s whose update removes the system t
WorldUpdateRemoving(s, t) ==
  LET r == RunSystemsRemoving(systems, 1, input, <<>>, s, t)
      removed == t \in Elems(systems) /\ t \notin Elems(r.systems)
  IN  /\ entities = <<>>
      /\ s \in Elems(systems)
      /\ systems' = r.systems
      /\ systemWorld' = IF removed THEN [systemWorld EXCEPT ![t] = FALSE] ELSE systemWorld
      /\ addOrder' = IF removed THEN RemoveFromSeq(addOrder, t) ELSE addOrder
      /\ input' = r.input
      /\ ran' = r.ran
      /\ wheelLog' = IF \E k \in 1..Len(r.ran) : r.ran[k].system = "InputSystem"
                     THEN <<>> ELSE wheelLog
      /\ UNCHANGED <<worldVars, collisionVars, everDestroyed, destroyLog, gameVars,
                     callbackVars, gridVars>>

NextSched ==
  \/ \E s \in TunedSystems, p \in PriorityChoices : SetPriority(s, p)
  \/ \E s \in SwitchedSystems, b \in BOOLEAN : SetEnabled(s, b)
  \/ \E s \in TunedSystems : AddSystem(s)
  \/ \E s \in TunedSystems : RemoveSystem(s)
  \/ KeyDown(" ")
  \/ WorldUpdate
  \/ \E s, t \in TunedSystems : WorldUpdateRemoving(s, t)

SpecSched == InitInput /\ [][NextSched]_vars

\* ------------------------------------------- the entity map and the indexes
\* world.removeEntity(entity)
WorldRemoveEntity(e) ==
  /\ SetWorld(World_removeEntity(W, e))
  /\ UNCHANGED <<collisionVars, auxVars>>

NextRemove ==
  \/ CreateEntity
  \/ \E e \in Created, t \in RegistryTypes : AddComponent(e, t, DefaultComponent(t))
  \/ \E e \in Created, g \in RegistryTags : AddTag(e, g)
  \/ \E e \in Created : Destroy(e)
  \/ \E e \in Created : WorldRemoveEntity(e)

SpecRemove == Init /\ [][NextRemove]_vars

\* ----------------------------------- component objects and their entities
PartHosts == {0, 1}

\* entity.addComponent(type, o) with a component object o of the caller
AttachPart(e, o) ==
  /\ SetWorld(Entity_addComponent(W, e, TypeOf(o), Part(o)))
  /\ owner' = Owner_addComponent(owner, W, e, o)
  /\ UNCHANGED <<collisionVars, callbackVars, engineVars, gridVars, destroyLog,
                 everDestroyed, moveVars, loopVars, utilVars, schedVars, ball>>

\* entity.removeComponent(type)
DetachPart(e, type) ==
  /\ SetWorld(Entity_removeComponent(W, e, type))
  /\ owner' = Owner_removeComponent(owner, W, e, type)
  /\ UNCHANGED <<collisionVars, callbackVars, engineVars, gridVars, destroyLog,
                 everDestroyed, moveVars, loopVars, utilVars, schedVars, ball>>

NextParts ==
  \/ CreateEntity
  \/ \E e \in Created \cap PartHosts, o \in PartNames : AttachPart(e, o)
  \/ \E e \in Created \cap PartHosts, o \in PartNames : DetachPart(e, TypeOf(o))

SpecParts == Init /\ [][NextParts]_vars

\* ------------------------------- a frame: the movement, then the collisions
\* new Physics({velocityX, velocityY, bounceX, bounceY, friction, bounds})
BoundedPhysics(vx, vy, bounce, friction, bounds) ==
  Physics(vx, vy, bounce) @@ [friction |-> friction, bounds |-> bounds]

\* the body of the loop of MovementSystem.update for the entity e of the world
MoveOne(w, e, deltaTime) ==
  IF ~Entity_hasComponent(w, e, "Transform") \/ ~Entity_hasComponent(w, e, "Physics")
  THEN w
  ELSE LET transform == w.components[e]["Transform"]
           physics == w.components[e]["Physics"]
           m == MovementSystem_update(
                  Mover(transform.x, transform.y, physics.velocityX, physics.velocityY,
                        physics.friction, physics.bounceX, physics.bounceY,
                        physics.bounds),
                  deltaTime)
       IN  [w EXCEPT !.components[e]["Transform"] =
                       [transform EXCEPT !.x = m.x, !.y = m.y],
                     !.components[e]["Physics"] =
                       [physics EXCEPT !.velocityX = m.velocityX,
                                       !.velocityY = m.velocityY]]

\* MovementSystem.update over this.getEntities()
RECURSIVE MoveAll(_, _, _)
MoveAll(w, todo, deltaTime) ==
  IF todo = <<>> THEN w
  ELSE MoveAll(MoveOne(w, Head(todo), deltaTime), Tail(todo), deltaTime)

MovementSystem_updateAll(w, deltaTime) ==
  MoveAll(w, World_getEntitiesWithComponents(w, <<"Transform", "Physics">>), deltaTime)

\* Two circles of radius 1 on the x axis, each kept by its Physics in the
\* field [0, 3] x [0, 1], at rest or moving one unit a second.
FieldBounds == [minX |-> 0, minY |-> 0, maxX |-> 3 * Unit, maxY |-> Unit]
FrameVelocities == {-Unit, 0, Unit}

FrameScene(x0, v0, x1, v1) ==
  LET w1 == GameObject_createCollider(EmptyWorld, x0, 0, NoTag,
                                      Collider(Unit, 0, {0}, FALSE, "default"))
      w2 == Entity_addComponent(w1, 0, "Physics",
                                BoundedPhysics(v0, 0, 0, 0, FieldBounds))
      w3 == GameObject_createCollider(w2, x1, 0, NoTag,
                                      Collider(Unit, 0, {0}, FALSE, "default"))
  IN  Entity_addComponent(w3, 1, "Physics", BoundedPhysics(v1, 0, 0, 0, FieldBounds))

InitFrame ==
  /\ \E x0, x1 \in PairPositions, v0, v1 \in FrameVelocities :
       LET w == FrameScene(x0, v0, x1, v1)
       IN  /\ entityIdCounter = w.entityIdCounter
           /\ entities = w.entities
           /\ destroyed = w.destroyed
           /\ components = w.components
           /\ tags = w.tags
           /\ componentEntities = w.componentEntities
           /\ taggedEntities = w.taggedEntities
           /\ hookBalance = w.hookBalance
           /\ calls = <<>>
           /\ tracing = FALSE
  /\ collidingPairs = {}
  /\ events = <<>>
  /\ threw = FALSE
  /\ updateCount = 0
  /\ trace = <<>>
  /\ lastCheck = <<>>
  /\ everDestroyed = {}
  /\ InitAux

\* world.update(deltaTime) of a Game after init: the MovementSystem
\* (priority 10) runs, then the CollisionSystem (priority 20); the InputSystem
\* and the RenderSystem move nothing.
WorldFrame(deltaTime) ==
  LET w1 == MovementSystem_updateAll(W, deltaTime)
      st == CollisionSystem_update(w1, collidingPairs, collisionCallbacks)
  IN  /\ updateCount < MaxUpdates
      /\ SetWorld(st.w)
      /\ collidingPairs' = IF st.threw THEN collidingPairs ELSE st.newCollidingPairs
      /\ events' = st.events
      /\ threw' = st.threw
      /\ updateCount' = updateCount + 1
      /\ trace' = Append(trace, Outcome(st, System_getEntities(w1)))
      /\ callbackCalls' = st.calls
      /\ UNCHANGED <<lastCheck, collisionCallbacks, engineVars, gridVars, destroyLog,
                     gameVars>>

NextFrame ==
  \/ WorldFrame(Unit)
  \/ \E e \in Created, x \in PairPositions : SetPosition(e, x, 0)

SpecFrame == InitFrame /\ [][NextFrame]_vars

\* ----------------------------------------------- BallGame from its mount
MaxTimers == 5
MaxRounds == 3

BallStep(b) ==
  /\ b.created <= MaxTimers
  /\ ball' = b
  /\ UNCHANGED <<worldVars, collisionVars, everDestroyed, destroyLog, callbackVars,
                 engineVars, gridVars, moveVars, loopVars, utilVars, schedVars, owner>>

\* the space key or the start button, before the game
StartGame == ball.gameState = "pregame" /\ BallStep(BallGame_startGame(ball))

\* the space key, after the game is over
ResetGame == ball.gameState = "gameover" /\ BallStep(BallGame_resetGame(ball))

\* an enemy reaches the player
GameOver ==
  /\ ball.gameState = "playing"
  /\ ~ball.roundComplete
  /\ BallStep(BallGame_gameOver(ball))

\* the score reaches the target of the round
RoundComplete ==
  /\ ball.gameState = "playing"
  /\ ~ball.roundComplete
  /\ BallStep(BallGame_roundComplete(ball))

\* the space key or the continue button, after the round
ContinueToNextRound ==
  /\ ball.roundComplete
  /\ ball.round < MaxRounds
  /\ BallStep(BallGame_continueToNextRound(ball))

\* two seconds after continueToNextRound
SpawnTimeout == ball.timeouts > 0 /\ BallStep(BallGame_spawnTimeout(ball))

NextBall ==
  \/ StartGame
  \/ ResetGame
  \/ GameOver
  \/ RoundComplete
  \/ ContinueToNextRound
  \/ SpawnTimeout

SpecBall == Init /\ [][NextBall]_vars

\* ================================================================ claims
InIndex(index, k, e) == k \in DOMAIN index /\ e \in Elems(index[k])

\* C1: in every reachable state an entity is in componentEntities[T] exactly
\* when its own component map has the key T, and in taggedEntities[G] exactly
\* when its own tag set holds G.
C1_IndexConsistent ==
  /\ \A e \in Ids, t \in Types :
       InIndex(componentEntities, t, e) <=> t \in DOMAIN components[e]
  /\ \A e \in Ids, g \in Tags :
       InIndex(taggedEntities, g, e) <=> g \in tags[e]

\* an entity has been destroyed while another one still holds a component and a tag
C1_Witness ==
  \E e, f \in Ids :
    /\ destroyed[e]
    /\ InIndex(componentEntities, "Collider", f)
    /\ InIndex(taggedEntities, "enemy", f)

ComponentLists ==
  {<<>>} \cup {<<t>> : t \in Types} \cup {<<t, u>> : t, u \in Types}

NeverReturned(e) ==
  /\ \A l \in ComponentLists : e \notin Elems(World_getEntitiesWithComponents(W, l))
  /\ \A g \in Tags : e \notin Elems(World_getEntitiesWithTag(W, g))
  /\ \A g \in Tags : e \notin World_getEntitiesByTag(W, g)
  /\ \A t \in Types : ~InIndex(componentEntities, t, e)
  /\ \A g \in Tags : ~InIndex(taggedEntities, g, e)

\* C2: in every reachable state, an entity that has been destroyed at some
\* earlier time is returned by no component query and no tag query and is a
\* member of no set of componentEntities or taggedEntities.
C2_DestroyedNeverReturned == \A e \in everDestroyed : NeverReturned(e)

\* an entity is destroyed while the queries return another entity
C2_Witness ==
  \E e, f \in Ids :
    /\ e \in everDestroyed
    /\ f \in Elems(World_getEntitiesWithComponents(W, <<"Transform", "Collider">>))
    /\ f \in World_getEntitiesByTag(W, "enemy")

\* number of hook calls of one phase made to `to` about `other`
Count(evs, phase, to, other) ==
  Cardinality({i \in 1..Len(evs) : evs[i] = Event(phase, to, other)})

\* the calls of one phase that concern the pair k, to either collider
CountPair(evs, phase, k) ==
  Count(evs, phase, k[1], k[2]) + Count(evs, phase, k[2], k[1])

IsPairEvent(ev, phase, k) ==
  /\ ev.phase = phase
  /\ {ev.to, ev.other} = {k[1], k[2]}

C5_EndOnLeave ==
  [][CollisionUpdate(FALSE) =>
       \A k \in collidingPairs \ collidingPairs' :
         /\ CountPair(events', "end", k) >= 1
         /\ Count(events', "end", k[1], k[2]) <= 1
         /\ Count(events', "end", k[2], k[1]) <= 1]_vars

\* C6: no call of CollisionSystem.update raises an error, also when a hook
\* destroys the entities of the pair that is being processed.
C6_UpdateCompletes == threw = FALSE

\* C7: between operations, no key of collidingPairs mentions the id of a
\* destroyed entity.
C7_NoStalePair ==
  \A k \in collidingPairs : ~destroyed[k[1]] /\ ~destroyed[k[2]]

\* ---- one pair over several updates (SpecPair)
\* how many times, over all the updates so far, the collider of `to` got the
\* call `phase` about `other`
TraceCalls(phase, to, other) ==
  Cardinality({ij \in (1..Len(trace)) \X (1..(2 * MaxEntities * MaxEntities)) :
                 /\ ij[2] <= Len(trace[ij[1]].calls)
                 /\ trace[ij[1]].calls[ij[2]] = Event(phase, to, other)})

\* the updates so far: apart, then overlapping in exactly three consecutive
\* updates, then apart
OverlapThreeThenApart ==
  \E n \in 0..Len(trace), m \in 1..Len(trace) :
    /\ Len(trace) = n + 3 + m
    /\ \A i \in 1..Len(trace) :
         trace[i].outcome = IF i \in (n + 1)..(n + 3) THEN "hit" ELSE "miss"

\* C4 as stated: a pair that overlaps in three consecutive updates and is then
\* apart got exactly one start, exactly two stay and exactly one end.
C4_OneStartTwoStaysOneEnd ==
  OverlapThreeThenApart =>
    \A p \in {<<0, 1>>, <<1, 0>>} :
      /\ TraceCalls("start", p[1], p[2]) = 1
      /\ TraceCalls("stay", p[1], p[2]) = 2
      /\ TraceCalls("end", p[1], p[2]) = 1

\* C4 amended: a pair that overlaps in three consecutive updates and is then
\* apart got exactly one start, exactly three stay (one in each overlapping
\* update, the first included) and exactly one end.
C4_OneStartThreeStaysOneEnd ==
  OverlapThreeThenApart =>
    \A p \in {<<0, 1>>, <<1, 0>>} :
      /\ TraceCalls("start", p[1], p[2]) = 1
      /\ TraceCalls("stay", p[1], p[2]) = 3
      /\ TraceCalls("end", p[1], p[2]) = 1

C4_Witness ==
  /\ OverlapThreeThenApart
  /\ TraceCalls("end", 0, 1) = 1

\* the Transform and the Physics of an entity
Body(e) == [t \in DOMAIN components[e] \ {"Collider"} |-> components[e][t]]

PairIsTrigger ==
  \E e \in {0, 1} : components[e]["Collider"].isTrigger

\* C9: an update that finds a pair colliding of which a collider is a trigger
\* changes the position and the velocity of neither entity, and still makes
\* the start / stay calls.
C9_TriggerNoResponse ==
  [][(CollisionUpdate(TRUE) /\ PairIsTrigger /\ <<0, 1>> \in collidingPairs')
     => /\ Body(0)' = Body(0)
        /\ Body(1)' = Body(1)
        /\ Count(events', "stay", 0, 1) = 1
        /\ Count(events', "stay", 1, 0) = 1]_vars

PairLacksPhysics ==
  \E e \in {0, 1} : ~Entity_hasComponent(W, e, "Physics")

\* C10: an update over an overlapping pair of which an entity has no Physics
\* changes the position and the velocity of neither entity, and the pair is
\* reported colliding.
C10_NoPhysicsNoResponse ==
  [][(CollisionUpdate(TRUE) /\ PairLacksPhysics
        /\ CollisionSystem_checkCollision(W, 0, 1))
     => /\ Body(0)' = Body(0)
        /\ Body(1)' = Body(1)
        /\ <<0, 1>> \in collidingPairs'
        /\ Count(events', "stay", 0, 1) = 1]_vars

C10_Witness ==
  /\ updateCount > 0
  /\ <<0, 1>> \in collidingPairs
  /\ Count(events, "stay", 0, 1) = 1
  /\ ~Entity_hasComponent(W, 0, "Physics")
  /\ Entity_hasComponent(W, 1, "Physics")
  /\ components[1]["Physics"].velocityX # 0
  /\ components[0]["Transform"].x # components[1]["Transform"].x

\* ---- the narrow phase (SpecNarrow)
\* C8: checkCollision of two circles is true exactly when the distance of the
\* centres is at most the sum of the radii, contact included.
C8_ClosedBoundary ==
  lastCheck # <<>> =>
    LET dx == components[1]["Transform"].x - components[0]["Transform"].x
        dy == components[1]["Transform"].y - components[0]["Transform"].y
        sum == components[0]["Collider"].radius + components[1]["Collider"].radius
    IN  lastCheck[1] = (dx * dx + dy * dy <= sum * sum)

\* ---- callbacks registered by tag pair (SpecCallback)
\* the positions in the call log of the calls of the callback filed under key
\* for the pair k with the given phase
CallbackPositions(log, key, k, phase) ==
  {i \in 1..Len(log) : log[i] = CallbackCall(key, k[1], k[2], phase)}

\* C11: in the update in which a pair starts to collide, a callback registered
\* for a tag of the one entity and a tag of the other is called with phase
\* start and, after that, with phase stay.
C11_CallbackStartThenStay ==
  [][(CollisionUpdate(FALSE) /\ ~threw')
     => \A k \in collidingPairs' \ collidingPairs :
          \A tagA \in tags[k[1]], tagB \in tags[k[2]] :
            CallbackKey(tagA, tagB) \in collisionCallbacks
            => \E i \in CallbackPositions(callbackCalls', CallbackKey(tagA, tagB), k, "start"),
                  j \in CallbackPositions(callbackCalls', CallbackKey(tagA, tagB), k, "stay") :
                 i < j]_vars

\* ---- the layer filter (SpecLayer)
NeitherListsOther(a, b) ==
  /\ components[b]["Collider"].layer \notin components[a]["Collider"].collidesWith
  /\ components[a]["Collider"].layer \notin components[b]["Collider"].collidesWith

\* C12: an update does not report a pair of which neither collider lists the
\* layer of the other: no key in collidingPairs, no start or stay call, no
\* change of position or velocity.
C12_LayerFilter ==
  [][CollisionUpdate(TRUE)
     => \A a, b \in Elems(entities) :
          (a < b /\ NeitherListsOther(a, b))
          => /\ <<a, b>> \notin collidingPairs'
             /\ CountPair(events', "start", <<a, b>>) = 0
             /\ CountPair(events', "stay", <<a, b>>) = 0
             /\ Body(a)' = Body(a)
             /\ Body(b)' = Body(b)]_vars

\* an update has passed over a pair that was colliding, overlaps still, and
\* of which neither collider lists the other any more
C12_Witness ==
  /\ Len(trace) >= 2
  /\ trace[Len(trace) - 1].outcome = "hit"
  /\ trace[Len(trace)].outcome = "miss"
  /\ CollisionSystem_checkCollision(W, 0, 1)
  /\ NeitherListsOther(0, 1)

\* ---- the order of the systems (SpecSystem)
\* the systems that the last World.update ran, in the order it ran them
RanNames == [i \in 1..Len(ran) |-> ran[i].system]

IndexOf(seq, s) == CHOOSE i \in 1..Len(seq) : seq[i] = s

\* C13: World.update runs exactly the registered systems, in ascending
\* priority and, among systems of equal priority, in the order of their
\* addSystem calls; removeSystem takes the system out, leaves the others in
\* their order and clears the world reference of the removed system.
C13_PriorityOrder ==
  [][/\ WorldUpdate
        => /\ Len(RanNames') = Len(addOrder)
           /\ Elems(RanNames') = Elems(addOrder)
           /\ \A i, k \in 1..Len(RanNames') :
                i < k =>
                  \/ Priority(RanNames'[i]) < Priority(RanNames'[k])
                  \/ /\ Priority(RanNames'[i]) = Priority(RanNames'[k])
                     /\ IndexOf(addOrder, RanNames'[i]) < IndexOf(addOrder, RanNames'[k])
     /\ \A s \in SystemNames :
          (RemoveSystem(s) /\ s \in Elems(systems))
          => /\ systems' = RemoveFromSeq(systems, s)
             /\ ~systemWorld'[s]]_vars

\* an update ran the two systems of priority 20 in the order of their
\* registration (projectile first) together with the input system, which was
\* removed afterwards
C13_Witness ==
  /\ {"InputSystem", "ProjectileSystem", "CollisionSystem"} \subseteq Elems(RanNames)
  /\ IndexOf(RanNames, "ProjectileSystem") < IndexOf(RanNames, "CollisionSystem")
  /\ "InputSystem" \notin Elems(systems)
  /\ ~systemWorld["InputSystem"]
  /\ "CollisionSystem" \in Elems(systems)

\* C14: with the systems registered as EcsGame registers them, a frame runs
\* input, movement, projectile pruning, collision, rendering, in this order.
C14_FrameOrder ==
  [][(WorldUpdate /\ addOrder = EcsGameSystems)
     => RanNames' = <<"InputSystem", "MovementSystem", "ProjectileSystem",
                      "CollisionSystem", "RenderSystem">>]_vars

\* ---- the edge state of the input system (SpecInput)
\* the keys that a system other than the input system found pressed /
\* released in the last World.update
SeenPressed == UNION {ran[i].pressed : i \in {m \in 1..Len(ran) : ran[m].system # "InputSystem"}}
SeenReleased == UNION {ran[i].released : i \in {m \in 1..Len(ran) : ran[m].system # "InputSystem"}}

\* C15: a key-down (key-up) edge that is pending when a World.update starts is
\* seen through wasKeyPressed (wasKeyReleased) by the systems of that update,
\* and is gone after it.
C15_EdgeSeenForOneUpdate ==
  [][WorldUpdate
     => \A k \in Keys :
          /\ InputSystem_wasKeyPressed(input, k)
             => k \in SeenPressed' /\ ~InputSystem_wasKeyPressed(input', k)
          /\ InputSystem_wasKeyReleased(input, k)
             => k \in SeenReleased' /\ ~InputSystem_wasKeyReleased(input', k)]_vars

RECURSIVE SumSeq(_)
SumSeq(seq) == IF seq = <<>> THEN 0 ELSE seq[1] + SumSeq(Tail(seq))

\* C16: getWheelDelta returns the sum of the deltas of the wheel events since
\* the last InputSystem.update, 0 if there was none.
C16_WheelDeltaIsSum ==
  InputSystem_getWheelDelta(input) = SumSeq(wheelLog)

\* ---- the grid broad phase (SpecGrid)
\* C17: after updateSpatialGrid has inserted all the entities, every pair that
\* checkCollision reports is found by getNearbyEntities, whether the entities
\* lie inside the grid's width and height or not.
C17_GridFindsCollidingPairs ==
  [][UpdateSpatialGrid
     => \A a, b \in GridIds :
          (a # b /\ GameEngine_checkCollision(G', a, b))
          => b \in SpatialHashGrid_getNearbyEntities(G', a)]_vars

\* C18: after removeEntity(e) no bucket contains e and no bucket is empty.
C18_RemovedFromEveryCell ==
  [][\A e \in GridIds :
       RemoveEntity(e)
       => \A key \in DOMAIN gridCells' :
            /\ e \notin Elems(gridCells'[key])
            /\ gridCells'[key] # <<>>]_vars

\* ---- destroying an entity more than once (SpecDestroy)
\* C19: the first destroy of an entity (Entity.destroy or World.destroyEntity)
\* calls onRemove of each of its components exactly once; every further
\* destroy of it leaves the world as it is and calls no onRemove.
C19_DestroyIdempotent ==
  [][\A e \in Created :
       (EntityDestroy(e) \/ WorldDestroyEntity(e))
       => /\ destroyed'[e]
          /\ e \notin Elems(entities')
          /\ destroyed[e] => W' = W
          /\ ~destroyed[e]
             => \A t \in Types :
                  hookBalance[e][t] - hookBalance'[e][t]
                    = IF t \in DOMAIN components[e] THEN 1 ELSE 0]_vars

\* an entity with two components was destroyed twice: the first call made the
\* two onRemove calls, the second none; another entity lives on
C19_Witness ==
  \E e \in Created :
    /\ Len(destroyLog[e]) = 2
    /\ destroyLog[e][1]["Transform"] = 1
    /\ destroyLog[e][1]["Collider"] = 1
    /\ \A t \in Types : destroyLog[e][2][t] = 0
    /\ \E o \in Elems(entities) : DOMAIN components[o] # {}

\* ---- the component query (SpecQuery)
NonEmptyLists ==
  {<<t>> : t \in Types} \cup {<<t, u>> : t, u \in Types}
    \cup {<<t, u, v>> : t, u, v \in Types}

\* the lists with the types of l in any order
Orderings ==
  [l \in NonEmptyLists |->
     {m \in NonEmptyLists : Len(m) = Len(l) /\ Elems(m) = Elems(l)}]

\* the live entities that hold every type of the list
Holders(l) ==
  {e \in Elems(entities) : ~destroyed[e] /\ Elems(l) \subseteq DOMAIN components[e]}

\* C20: for every non-empty list of types, getEntitiesWithComponents returns
\* exactly the live entities that hold every listed type, each once; lists
\* with the same types in another order give the same set.
C20_QueryIsIntersection ==
  \A l \in NonEmptyLists :
    LET r == World_getEntitiesWithComponents(W, l)
    IN  /\ Elems(r) = Holders(l)
        /\ Len(r) = Cardinality(Holders(l))
        /\ \A m \in Orderings[l] :
             Elems(World_getEntitiesWithComponents(W, m)) = Elems(r)

\* entities with the component sets {A}, {A, B}, {B}: the query for A and B
\* returns the one in the middle, in both orders of the list
C20_Witness ==
  \E e, f, g \in Elems(entities) :
    /\ DOMAIN components[e] = {"Transform"}
    /\ DOMAIN components[f] = {"Transform", "Collider"}
    /\ DOMAIN components[g] = {"Collider"}
    /\ World_getEntitiesWithComponents(W, <<"Transform", "Collider">>) = <<f>>
    /\ World_getEntitiesWithComponents(W, <<"Collider", "Transform">>) = <<f>>

\* ---- the order of the hook calls (SpecHooks)
\* the positions of the call log that hold a call of the given name
CallsNamed(log, name) == {i \in 1..Len(log) : log[i].call = name}

\* e is in no index of the world w
Unindexed(w, e) ==
  /\ \A t \in DOMAIN w.componentEntities : e \notin Elems(w.componentEntities[t])
  /\ \A g \in DOMAIN w.taggedEntities : e \notin Elems(w.taggedEntities[g])

\* C21: loadScene calls the setup function once, after the destroy of every
\* entity that existed before; the world that the setup function finds holds
\* none of them in the entity map or in an index, and each is marked destroyed.
C21_SceneClearedBeforeSetup ==
  [][LoadScene
     => /\ Cardinality(CallsNamed(calls', "setupFn")) = 1
        /\ \A i \in CallsNamed(calls', "setupFn") :
             /\ \A j \in CallsNamed(calls', "destroy") : j < i
             /\ \A e \in Elems(entities) :
                  /\ \E j \in CallsNamed(calls', "destroy") : calls'[j].entity = e
                  /\ calls'[i].world.destroyed[e]
                  /\ e \notin Elems(calls'[i].world.entities)
                  /\ Unindexed(calls'[i].world, e)]_vars

\* a scene was loaded over two entities with components
C21_Witness ==
  /\ Cardinality(CallsNamed(calls, "setupFn")) = 1
  /\ Cardinality(CallsNamed(calls, "destroy")) = 2
  /\ Cardinality(CallsNamed(calls, "onRemove")) >= 4
  /\ entities = <<>>

\* C22: clear calls onRemove of every registered system, each once, before the
\* destroy of any entity, destroys every entity, and leaves the world without
\* systems and without entities.
C22_SystemsBeforeEntities ==
  [][Clear
     => /\ \A i \in CallsNamed(calls', "System.onRemove") :
             \A j \in CallsNamed(calls', "destroy") : i < j
        /\ \A s \in Elems(systems) :
             Cardinality({i \in CallsNamed(calls', "System.onRemove") :
                            calls'[i].system = s}) = 1
        /\ \A e \in Elems(entities) :
             \E j \in CallsNamed(calls', "destroy") : calls'[j].entity = e
        /\ systems' = <<>>
        /\ \A s \in SystemNames : ~systemWorld'[s]
        /\ entities' = <<>>
        /\ componentEntities' = EmptyMap
        /\ taggedEntities' = EmptyMap]_vars

\* a world with four systems and two entities was cleared
C22_Witness ==
  /\ Cardinality(CallsNamed(calls, "System.onRemove")) = 4
  /\ Cardinality(CallsNamed(calls, "destroy")) = 2
  /\ systems = <<>>
  /\ entities = <<>>

\* the operations of the claim on the entity e
AttachOrDetach(e) ==
  \/ \E t \in RegistryTypes : \E c \in ReplacementChoices(t) : AddComponent(e, t, c)
  \/ \E t \in RegistryTypes : RemoveComponent(e, t)
  \/ \E g \in RegistryTags : AddTag(e, g)
  \/ \E g \in RegistryTags : RemoveTag(e, g)

\* C23: addComponent, removeComponent, addTag and removeTag on a destroyed
\* entity change no component map, no tag set and no index, and call no hook:
\* all they do is warn.
C23_DestroyedIsInert ==
  [][\A e \in Created :
       (destroyed[e] /\ AttachOrDetach(e))
       => /\ W' = W
          /\ Len(calls') = 1
          /\ calls'[1].call = "warn"
          /\ calls'[1].entity = e]_vars

\* an operation was refused on a destroyed entity while another entity lives
C23_Witness ==
  /\ Len(calls) = 1
  /\ calls[1].call = "warn"
  /\ destroyed[calls[1].entity]
  /\ entities # <<>>

\* C24: addComponent(T, c2) on a live entity that holds c1 under T calls
\* c1.onRemove once and clears c1's back-reference, then stores c2 and calls
\* c2.onAdd; afterwards the entity holds c2 under T and is once in the index
\* of T.
C24_ReplaceDetachesFirst ==
  [][\A e \in Created, t \in RegistryTypes :
       \A c2 \in ReplacementChoices(t) :
         (~destroyed[e] /\ t \in DOMAIN components[e] /\ AddComponent(e, t, c2))
         => LET c1 == components[e][t]
            IN  /\ calls' = <<Call("onRemove", e, t, c1), Call("unlink", e, t, c1),
                              Call("set", e, t, c2), Call("link", e, t, c2),
                              Call("onAdd", e, t, c2)>>
                /\ components'[e][t] = c2
                /\ DOMAIN components'[e] = DOMAIN components[e]
                /\ t \in DOMAIN componentEntities'
                /\ Cardinality({i \in 1..Len(componentEntities'[t]) :
                                  componentEntities'[t][i] = e}) = 1
                /\ hookBalance' = hookBalance]_vars

\* a held Transform was replaced by another one
C24_Witness ==
  /\ Len(calls) = 5
  /\ calls[1].call = "onRemove"
  /\ calls[5].call = "onAdd"
  /\ calls[1].type = "Transform"
  /\ calls[1].component # calls[5].component
  /\ components[calls[5].entity]["Transform"] = calls[5].component

\* ---- the ids of the entities (SpecIds)
\* C25: createEntity adds exactly one entity to the world, under an id that no
\* entity of the world has and that no destroyed entity had.
C25_IdsNeverReused ==
  [][CreateEntity
     => \E id \in Elems(entities') :
          /\ id \notin Elems(entities)
          /\ id \notin everDestroyed
          /\ ~destroyed[id]
          /\ Elems(entities') = Elems(entities) \cup {id}
          /\ Len(entities') = Len(entities) + 1]_vars

\* an entity was created after every earlier one had been destroyed
C25_Witness ==
  /\ Len(calls) = 1
  /\ calls[1].call = "createEntity"
  /\ calls[1].entity > 0
  /\ everDestroyed = 0..(calls[1].entity - 1)
  /\ entities = <<calls[1].entity>>

\* ---- the bounds of a moving entity (SpecMove)
\* the step carries the entity past the lower, past the upper bound of an axis
PastMin(pos, vel, deltaTime, min) == pos + Mul(vel, deltaTime) < min
PastMax(pos, vel, deltaTime, max) == pos + Mul(vel, deltaTime) > max

\* the velocity after the friction decay of the step
Decayed(vel, friction, deltaTime) ==
  IF friction > 0 THEN StopSlow(Mul(vel, Pow(Unit - friction, deltaTime))) ELSE vel

\* the velocity that the bounds step must leave, given the one that it found
Reflected(vel, bounce) == IF bounce = 0 THEN 0 ELSE Mul(-vel, bounce)

\* C26: a step that carries the entity past a bound of an axis sets the
\* position on that axis to the bound and the velocity on it to the negated
\* velocity that comes into the bounds step (the entity's velocity after the
\* friction decay of the step, its velocity at the start of the step when
\* there is no friction) times the bounce of the axis, to 0 when the bounce
\* is 0; each axis by itself.
C26_BounceReflectsIncoming ==
  [][\A dt \in DeltaTimes :
       (MovementUpdate(dt) /\ mover.bounds # NoBounds)
       => LET b == mover.bounds
              vx == Decayed(mover.velocityX, mover.friction, dt)
              vy == Decayed(mover.velocityY, mover.friction, dt)
          IN  /\ PastMin(mover.x, mover.velocityX, dt, b.minX)
                 => /\ mover'.x = b.minX
                    /\ mover'.velocityX = Reflected(vx, mover.bounceX)
              /\ PastMax(mover.x, mover.velocityX, dt, b.maxX)
                 => /\ mover'.x = b.maxX
                    /\ mover'.velocityX = Reflected(vx, mover.bounceX)
              /\ PastMin(mover.y, mover.velocityY, dt, b.minY)
                 => /\ mover'.y = b.minY
                    /\ mover'.velocityY = Reflected(vy, mover.bounceY)
              /\ PastMax(mover.y, mover.velocityY, dt, b.maxY)
                 => /\ mover'.y = b.maxY
                    /\ mover'.velocityY = Reflected(vy, mover.bounceY)]_vars

\* the last step carried an entity with friction past the lower bound of x and
\* past the upper bound of y at once; x bounces, y has no bounce
C26_Witness ==
  /\ moved # <<>>
  /\ LET in == moved[Len(moved)]
         m == in.before
     IN  /\ m.bounds # NoBounds
         /\ m.friction > 0
         /\ PastMin(m.x, m.velocityX, in.deltaTime, m.bounds.minX)
         /\ PastMax(m.y, m.velocityY, in.deltaTime, m.bounds.maxY)
         /\ m.bounceX # 0
         /\ m.bounceY = 0
         /\ mover.x = m.bounds.minX
         /\ mover.velocityX > 0
         /\ mover.velocityY = 0

\* ---- the pruning of projectiles (SpecProjectile)
\* the distance of (x, y) from the origin of the lifetime is greater than d
FartherThan(transform, lifetime, d) ==
  (transform.x - lifetime.originX) * (transform.x - lifetime.originX)
    + (transform.y - lifetime.originY) * (transform.y - lifetime.originY) > d * d

\* the entity e is to be pruned: it holds a Transform and a Lifetime and is
\* beyond maxDistance or outside [0, width] x [0, height]
ToPrune(e) ==
  /\ {"Transform", "Lifetime"} \subseteq DOMAIN components[e]
  /\ LET transform == components[e]["Transform"]
         lifetime == components[e]["Lifetime"]
     IN  \/ FartherThan(transform, lifetime, lifetime.maxDistance)
         \/ transform.x < 0 \/ transform.x > FieldWidth
         \/ transform.y < 0 \/ transform.y > FieldHeight

\* C27: an update of the ProjectileSystem that is registered with the world
\* destroys exactly the entities that hold a Transform and a Lifetime and are
\* beyond maxDistance or outside the field; every other entity stays in the
\* world as it was.
C27_PrunesExactly ==
  [][(ProjectileUpdate /\ systemWorld["ProjectileSystem"])
     => \A e \in Elems(entities) :
          /\ destroyed'[e] <=> ToPrune(e)
          /\ ~ToPrune(e) => /\ e \in Elems(entities')
                            /\ DOMAIN components'[e] = DOMAIN components[e]
                            /\ \A t \in DOMAIN components[e] \ {"Lifetime"} :
                                 components'[e][t] = components[e][t]]_vars

\* the last update destroyed the projectile that had left the field and kept
\* one that lies on the edge of the field, at exactly maxDistance
C27_Witness ==
  /\ Cardinality(CallsNamed(calls, "destroy")) = 1
  /\ destroyed[1]
  /\ ~destroyed[0]
  /\ {"Transform", "Lifetime"} \subseteq DOMAIN components[0]
  /\ components[0]["Transform"] = Transform(5, 1)
  /\ components[0]["Lifetime"].maxDistance = 4
  /\ components[0]["Lifetime"].distanceTraveled = 4

C29_CheckIsSymmetric ==
  \A a, b \in Created :
    CollisionSystem_checkCollision(W, a, b) = CollisionSystem_checkCollision(W, b, a)

\* two circles of different radii at different places were checked and overlap
C29_Witness ==
  /\ lastCheck = <<TRUE>>
  /\ components[0]["Collider"].radius # components[1]["Collider"].radius
  /\ components[0]["Transform"] # components[1]["Transform"]

\* ---- the utility checkCollision (SpecUtil)
\* the distance between the positions of the two objects is at most half the
\* sum of their sizes
WithinHalfSizes(obj1, obj2) ==
  4 * ((obj1.x - obj2.x) * (obj1.x - obj2.x) + (obj1.y - obj2.y) * (obj1.y - obj2.y))
    <= (obj1.size + obj2.size) * (obj1.size + obj2.size)

\* the two objects touch: their distance is half the sum of their sizes
Touching(obj1, obj2) ==
  4 * ((obj1.x - obj2.x) * (obj1.x - obj2.x) + (obj1.y - obj2.y) * (obj1.y - obj2.y))
    = (obj1.size + obj2.size) * (obj1.size + obj2.size)

\* C30: the utility checkCollision(obj1, obj2) returns true exactly when the
\* distance between the positions of the two objects is at most half the sum
\* of their sizes; two objects that exactly touch are reported as colliding.
C30_UtilityCollidesWhenTouching ==
  [][CheckObjects(1, 2) =>
       collided' = <<WithinHalfSizes(objects[1], objects[2])>>]_vars

\* two objects of different sizes that exactly touch were checked and collide
C30_Witness ==
  /\ collided = <<TRUE>>
  /\ Touching(objects[1], objects[2])
  /\ objects[1].size # objects[2].size
  /\ objects[1].x # objects[2].x

\* ---- the order of the collision scan (SpecLayer)
Reversed(s) == [i \in 1..Len(s) |-> s[Len(s) + 1 - i]]

\* the pairs that an update reports when it scans the entities in the order arr
ReportedInOrder(arr) ==
  Scan([w |-> W, newCollidingPairs |-> {}, events |-> <<>>, threw |-> FALSE,
        callbacks |-> collisionCallbacks, calls |-> <<>>],
       collidingPairs, arr, 1, 2).newCollidingPairs

\* C31: the pairs that an update reports as colliding are the pairs that it
\* would report with the entities in the opposite scan order, also when only
\* one collider of a pair lists the layer of the other.
C31_ScanOrderIrrelevant ==
  [][CollisionUpdate(TRUE)
     => collidingPairs' = ReportedInOrder(Reversed(System_getEntities(W)))]_vars

\* ---- systems that change while the world runs (SpecSched)
TimesRan(log, s) == Cardinality({i \in 1..Len(log) : log[i].system = s})

\* C32: when the update of a system calls world.removeSystem during
\* World.update, every system that is registered when the call returns has had
\* its update called exactly once in that call.
C32_RemainingRanOnce ==
  [][(\E s, t \in TunedSystems : WorldUpdateRemoving(s, t))
     => \A u \in Elems(systems') : TimesRan(ran', u) = 1]_vars

\* C33: World.update calls the registered systems in ascending order of the
\* priorities they have at the time of the call, also after setPriority.
C33_RunsInCurrentPriorityOrder ==
  [][WorldUpdate
     => \A i, k \in 1..Len(ran') :
          i < k => priority[ran'[i].system] <= priority[ran'[k].system]]_vars

\* C34: a World.update while the registered InputSystem is disabled leaves
\* the state of the InputSystem as it was.
C34_DisabledChangesNothing ==
  [][(WorldUpdate /\ "InputSystem" \in Elems(systems) /\ ~enabled["InputSystem"])
     => input' = input]_vars

\* ---- the entity map and the indexes (SpecRemove)
\* C35: every entity in a set of componentEntities or of taggedEntities is in
\* the entity map of the world, so that a component or tag query returns only
\* entities that the query for all entities returns.
C35_IndexedAreInWorld ==
  /\ \A t \in DOMAIN componentEntities :
       Elems(World_getEntitiesWithComponents(W, <<t>>))
         \subseteq Elems(World_getEntitiesWithComponents(W, <<>>))
  /\ \A g \in DOMAIN taggedEntities :
       Elems(taggedEntities[g]) \subseteq Elems(World_getEntitiesWithComponents(W, <<>>))

\* ---- the back-reference of a component (SpecParts)
\* C36: the entity property of every component that a live entity holds is
\* that entity, after any sequence of addComponent and removeComponent calls.
C36_BackReferenceIsHolder ==
  \A e \in Elems(entities) : \A t \in DOMAIN components[e] :
    owner[components[e][t].name] = Ref(e)

\* ---- the bounds at the end of a frame (SpecFrame)
\* the position of e lies inside the bounds of its Physics on both axes
InsideBounds(transform, bounds) ==
  /\ bounds.minX <= transform.x /\ transform.x <= bounds.maxX
  /\ bounds.minY <= transform.y /\ transform.y <= bounds.maxY

\* C37: at the end of every world update each entity whose Physics has bounds
\* has its position inside those bounds, also when the collision system moved
\* it in that update.
C37_InsideBoundsAfterFrame ==
  [][WorldFrame(Unit)
     => \A e \in Elems(entities') :
          ({"Transform", "Physics"} \subseteq DOMAIN components'[e]
           /\ components'[e]["Physics"].bounds # NoBounds)
          => InsideBounds(components'[e]["Transform"],
                          components'[e]["Physics"].bounds)]_vars

\* ---- the requested frames of a Game (SpecRestart)
\* C38: at most one animation-frame request of the Game is outstanding, for
\* every interleaving of start, stop and frames, also when stop and then start
\* are called from inside the update of a frame.
C38_OneFrameRequested == Cardinality(game.pending) <= 1

\* ---- the spawn timers of BallGame (SpecBall)
\* C39: at most one zombie-spawn interval timer is active at any time, over
\* every sequence of starting the game, completing a round, continuing to the
\* next round, game over and restart.
C39_OneSpawnTimer == Cardinality(ball.active) <= 1

\* ---- the entries of the indexes (SpecHooks)
\* C40: no key of componentEntities or of taggedEntities maps to an empty
\* set: the entry of a type or tag goes when its last holder detaches it or
\* is destroyed.
C40_NoEmptyIndexEntry ==
  /\ \A t \in DOMAIN componentEntities : componentEntities[t] # <<>>
  /\ \A g \in DOMAIN taggedEntities : taggedEntities[g] # <<>>

\* the last holder of a Collider had it removed and lives on: the type has
\* no entry any more, and Transform, which both entities hold, keeps its own
C40_Witness ==
  /\ \E i \in CallsNamed(calls, "onRemove") :
       calls[i].type = "Collider" /\ ~destroyed[calls[i].entity]
  /\ "Collider" \notin DOMAIN componentEntities
  /\ "Transform" \in DOMAIN componentEntities
  /\ Len(componentEntities["Transform"]) = 2

====
